---- MODULE Spec2Model ----
(***************************************************************************)
(* A model of the virtual mount filesystem of webdav-server               *)
(* (package mergefs): the mount table, path normalisation, the guarded    *)
(* filesystem operations and the merged directory handle.                 *)
(*                                                                         *)
(* Paths are strings; TLC evaluates Len, \o, SubSeq, Head and Tail on     *)
(* strings, which is enough to write the Go string functions the code     *)
(* uses (strings.HasPrefix, strings.TrimPrefix, strings.Trim,             *)
(* strings.Split, path.Clean) byte for byte.                              *)
(***************************************************************************)
EXTENDS Integers, Sequences, FiniteSets, TLC

VARIABLES mounts, backend, handle, last, writes, mu, run, readonly, ctx, auth,
          clock, cookie, job

vars ==
    <<mounts, backend, handle, last, writes, mu, run, readonly, ctx, auth,
      clock, cookie, job>>

\* MountFs.mu and the calls the goroutines are in
locks == <<mu, run>>
\* the read-only wrappers of the MountFs in use, the FsContext it was taken
\* from, the AuthFS that holds it, time.Now().Unix() and the session token
\* the client holds, and the Rename between two backends that is under way
session == <<readonly, ctx, auth, clock, cookie, job>>

----------------------------------------------------------------------------
(* Bounds of the model.                                                    *)

\* largest number of mounts in the table of the mount-table specification
MaxTableMounts == 3
\* largest number of mounts in the table of the filesystem specification
MaxMounts == 2
\* largest number of segments of the path strings the invariants of the
\* mount-table specification quantify over
MaxDepth == 3
\* largest number of calls that write to the backends in one behaviour
MaxWrites == 2

----------------------------------------------------------------------------
(* Go string functions.                                                    *)

\* the byte at position i (1-based) of s
CharAt(s, i) == SubSeq(s, i, i)

\* the byte value of a character of the alphabet the model uses
Ord(c) ==
    CASE c = "-" -> 45
      [] c = "." -> 46
      [] c = "/" -> 47
      [] c = "1" -> 49
      [] c = "A" -> 65
      [] c = "D" -> 68
      [] c = "E" -> 69
      [] c = "M" -> 77
      [] c = "R" -> 82
      [] c = "a" -> 97
      [] c = "b" -> 98
      [] c = "c" -> 99
      [] c = "t" -> 116
      [] c = "u" -> 117
      [] c = "x" -> 120

HasPrefix(s, p) == Len(p) <= Len(s) /\ SubSeq(s, 1, Len(p)) = p

HasSuffix(s, p) == Len(p) <= Len(s) /\ SubSeq(s, Len(s) - Len(p) + 1, Len(s)) = p

TrimPrefix(s, p) == IF HasPrefix(s, p) THEN SubSeq(s, Len(p) + 1, Len(s)) ELSE s

RECURSIVE TrimLeftSlash(_)
TrimLeftSlash(s) ==
    IF Len(s) > 0 /\ CharAt(s, 1) = "/" THEN TrimLeftSlash(Tail(s)) ELSE s

RECURSIVE TrimRightSlash(_)
TrimRightSlash(s) ==
    IF Len(s) > 0 /\ CharAt(s, Len(s)) = "/"
    THEN TrimRightSlash(SubSeq(s, 1, Len(s) - 1))
    ELSE s

\* strings.Trim(s, "/")
TrimSlashes(s) == TrimRightSlash(TrimLeftSlash(s))

\* strings.Split(s, "/"): the segments between slashes, empty ones included;
\* the result is never empty (Split("") is the one-element list [""]).
RECURSIVE SplitFrom(_, _)
SplitFrom(s, cur) ==
    IF Len(s) = 0 THEN <<cur>>
    ELSE IF CharAt(s, 1) = "/" THEN <<cur>> \o SplitFrom(Tail(s), "")
    ELSE SplitFrom(Tail(s), cur \o CharAt(s, 1))

Split(s) == SplitFrom(s, "")

\* strings.Join(segs, "/")
RECURSIVE Join(_)
Join(segs) ==
    IF Len(segs) = 0 THEN ""
    ELSE IF Len(segs) = 1 THEN segs[1]
    ELSE segs[1] \o "/" \o Join(Tail(segs))

\* cmp.Compare(a, b) < 0 on strings: bytewise lexicographic order
RECURSIVE StrLess(_, _)
StrLess(a, b) ==
    IF Len(b) = 0 THEN FALSE
    ELSE IF Len(a) = 0 THEN TRUE
    ELSE IF CharAt(a, 1) = CharAt(b, 1) THEN StrLess(Tail(a), Tail(b))
    ELSE Ord(CharAt(a, 1)) < Ord(CharAt(b, 1))

\* path.Clean: the element stack after reading the segments of a path.
\* "." and empty elements are dropped; ".." removes the last real element,
\* is dropped at the root of a rooted path and is kept in front of a
\* relative one.
RECURSIVE CleanStack(_, _, _)
CleanStack(segs, stack, rooted) ==
    IF Len(segs) = 0 THEN stack
    ELSE LET s == Head(segs)
             rest == Tail(segs)
         IN  IF s = "" \/ s = "." THEN CleanStack(rest, stack, rooted)
             ELSE IF s = ".."
                  THEN IF Len(stack) > 0 /\ stack[Len(stack)] # ".."
                       THEN CleanStack(rest, SubSeq(stack, 1, Len(stack) - 1), rooted)
                       ELSE IF rooted THEN CleanStack(rest, stack, rooted)
                       ELSE CleanStack(rest, Append(stack, ".."), rooted)
             ELSE CleanStack(rest, Append(stack, s), rooted)

Clean(p) ==
    IF p = "" THEN "."
    ELSE IF CharAt(p, 1) = "/"
         THEN "/" \o Join(CleanStack(Split(p), <<>>, TRUE))
    ELSE IF CleanStack(Split(p), <<>>, FALSE) = <<>> THEN "."
    ELSE Join(CleanStack(Split(p), <<>>, FALSE))

\* filepath.ToSlash: the separator of the build target is already "/"
ToSlash(p) == p

\* the second statement of NormalizePath: "." becomes "/"
RootIfDot(c) == IF c = "." THEN "/" ELSE c

\* the body of NormalizePath
NormalizePathBody(p) == "/" \o TrimSlashes(RootIfDot(Clean(ToSlash(p))))

\* the segments the generated path strings are made of
SegNames == {"a", "b", "", ".."}

RECURSIVE SegPaths(_)
SegPaths(n) ==
    IF n = 0 THEN {""}
    ELSE IF n = 1 THEN SegNames
    ELSE {q \o "/" \o x : q \in SegPaths(n - 1), x \in SegNames}

\* every path string of at most MaxDepth segments, rooted or relative
AllPaths ==
    UNION {SegPaths(n) \cup {"/" \o q : q \in SegPaths(n)} : n \in 0..MaxDepth}

\* NormalizePath of the generated path strings, computed once
Normalized == [p \in AllPaths |-> NormalizePathBody(p)]

NormalizePath(p) ==
    IF p \in DOMAIN Normalized THEN Normalized[p] ELSE NormalizePathBody(p)

----------------------------------------------------------------------------
(* The mount table.                                                        *)

\* the backends: DefaultFs is MountFs.defaultFs, the others can be mounted
DefaultFs == "D"
MountableFs == {"A", "B", "C"}
BackendIds == {DefaultFs} \cup MountableFs

Prefixes == {mounts[i].Prefix : i \in 1..Len(mounts)}

\* slices.SortFunc(m.mounts, -cmp.Compare(a.Prefix, b.Prefix)): insertion of
\* every element into a list kept in descending order of the prefix
RECURSIVE InsertDesc(_, _)
InsertDesc(sorted, m) ==
    IF Len(sorted) = 0 THEN <<m>>
    ELSE IF StrLess(Head(sorted).Prefix, m.Prefix) THEN <<m>> \o sorted
    ELSE <<Head(sorted)>> \o InsertDesc(Tail(sorted), m)

\* a Mount that appends and does not sort
KeepOrder(ms) == ms

RECURSIVE SortDesc(_)
SortDesc(ms) ==
    IF Len(ms) = 0 THEN <<>>
    ELSE InsertDesc(SortDesc(SubSeq(ms, 1, Len(ms) - 1)), ms[Len(ms)])

\* the prefix Mount and Unmount store and look for
MountPrefix(prefix) == "/" \o TrimSlashes(prefix)

\* the indices of the mounts a normalised path lies in
Matching(path) ==
    {i \in 1..Len(mounts) :
        path = mounts[i].Prefix \/ HasPrefix(path, mounts[i].Prefix \o "/")}

\* the first element of the range loop that satisfies the condition
First(S) == CHOOSE i \in S : \A j \in S : i <= j

\* the loop of GetMount over the table, for the normalised path
Resolve(path) ==
    IF path = "/" THEN [fs |-> DefaultFs, rel |-> path]
    ELSE IF Matching(path) # {}
         THEN [fs |-> mounts[First(Matching(path))].Fs,
               rel |-> TrimPrefix(path, mounts[First(Matching(path))].Prefix)]
    ELSE [fs |-> DefaultFs, rel |-> path]

\* MountFs.GetMount: the backend and the path relative to it
GetMount(p) == Resolve(NormalizePath(p))

\* the loop of GetMountInfo over the table, for the normalised name
ResolveInfo(name) ==
    IF Matching(name) # {}
    THEN [prefix |-> mounts[First(Matching(name))].Prefix,
          fs |-> mounts[First(Matching(name))].Fs,
          rel |-> IF TrimPrefix(name, mounts[First(Matching(name))].Prefix) = ""
                  THEN "/"
                  ELSE TrimPrefix(name, mounts[First(Matching(name))].Prefix)]
    ELSE [prefix |-> "/", fs |-> DefaultFs, rel |-> name]

\* MountFs.GetMountInfo: the matched prefix, the backend and the relative path
GetMountInfo(p) == ResolveInfo(NormalizePath(p))

\* the loop of directDir over the table, for the normalised directory
DirectMount(d) ==
    LET S == {i \in 1..Len(mounts) : mounts[i].Prefix = d}
    IN  IF S # {} THEN [ok |-> TRUE, mount |-> mounts[First(S)]]
        ELSE [ok |-> FALSE, mount |-> [Prefix |-> "", Fs |-> ""]]

\* MountFs.directDir: the mount whose prefix is the normalised directory
directDir(dir) == DirectMount(NormalizePath(dir))

\* MountFs.hasChildMount
hasChildMount(dir) ==
    LET d == NormalizePath(dir) \o "/"
    IN  \E i \in 1..Len(mounts) : HasPrefix(mounts[i].Prefix, d)

\* whether a mount is kept by the loop of getMountsUnder over directory d
IsUnder(mount, d) ==
    /\ mount.Prefix # d
    /\ IF d = "/" THEN HasPrefix(mount.Prefix, "/")
       ELSE HasPrefix(mount.Prefix, d \o "/")

RECURSIVE MountsUnderFrom(_, _)
MountsUnderFrom(ms, d) ==
    IF Len(ms) = 0 THEN <<>>
    ELSE IF IsUnder(Head(ms), d) THEN <<Head(ms)>> \o MountsUnderFrom(Tail(ms), d)
    ELSE MountsUnderFrom(Tail(ms), d)

\* MountFs.getMountsUnder: the mounts strictly below a directory
getMountsUnder(dir) == MountsUnderFrom(mounts, NormalizePath(dir))

----------------------------------------------------------------------------
(* The backends.  A backend (afero.Fs) is a tree: a function from the      *)
(* absolute paths that exist in it to their entries.  The operations are   *)
(* those of a host directory (afero.BasePathFs over afero.OsFs, the        *)
(* backend main mounts for a pool): a path is resolved below the root      *)
(* whatever its form, so the empty relative path is the root.              *)

DirMode == "drwxr-xr-x"
FileMode == "-rw-r--r--"

\* the zero time.Time; an entry a backend makes gets the time 1
ZeroTime == 0

DirEntry == [kind |-> "dir", data |-> "", mode |-> DirMode, mtime |-> 1]
NewFile == [kind |-> "file", data |-> "", mode |-> FileMode, mtime |-> 1]

EmptyTree == [q \in {"/"} |-> DirEntry]

\* the path a backend resolves a relative path to
BPathBody(rel) == Clean("/" \o rel)

BPaths == [p \in AllPaths |-> BPathBody(p)]

BPath(rel) == IF rel \in DOMAIN BPaths THEN BPaths[rel] ELSE BPathBody(rel)

\* path.Dir of a clean absolute path
ParentBody(q) ==
    LET segs == Split(q)
    IN  IF Len(segs) <= 2 THEN "/"
        ELSE Join(SubSeq(segs, 1, Len(segs) - 1))

Parents == [p \in AllPaths |-> ParentBody(p)]

Parent(q) == IF q \in DOMAIN Parents THEN Parents[q] ELSE ParentBody(q)

\* filepath.Base: the last element of a path, "/" for the root
BaseBody(q) ==
    LET segs == Split(TrimRightSlash(q))
    IN  IF q = "" THEN "."
        ELSE IF TrimRightSlash(q) = "" THEN "/"
        ELSE segs[Len(segs)]

Bases == [p \in AllPaths |-> BaseBody(p)]

Base(q) == IF q \in DOMAIN Bases THEN Bases[q] ELSE BaseBody(q)

\* path.Join(dir, name) for a non-empty name
PathJoin(dir, name) == IF dir = "" THEN Clean(name) ELSE Clean(dir \o "/" \o name)

Below(q, dir) == HasPrefix(q, IF dir = "/" THEN "/" ELSE dir \o "/") /\ q # dir

IsDirIn(t, q) == q \in DOMAIN t /\ t[q].kind = "dir"

Children(t, dir) == {q \in DOMAIN t : q # "/" /\ Parent(q) = dir}

Without(t, S) == [q \in DOMAIN t \ S |-> t[q]]

With(t, q, e) == [r \in DOMAIN t \cup {q} |-> IF r = q THEN e ELSE t[r]]

\* afero.Fs.Stat
StatAt(t, q) ==
    IF q \in DOMAIN t THEN [err |-> "nil", info |-> t[q]]
    ELSE [err |-> "ENOENT", info |-> DirEntry]

BStat(t, rel) == StatAt(t, BPath(rel))

\* afero.Fs.Remove: a file or an empty directory
RemoveAt(t, q) ==
    IF q \notin DOMAIN t THEN [err |-> "ENOENT", t |-> t]
    ELSE IF Children(t, q) # {} THEN [err |-> "ENOTEMPTY", t |-> t]
    ELSE [err |-> "nil", t |-> Without(t, {q})]

BRemove(t, rel) == RemoveAt(t, BPath(rel))

\* afero.Fs.RemoveAll: the path and everything below it; a missing path is
\* no error
RemoveAllAt(t, q) ==
    [err |-> "nil", t |-> Without(t, {r \in DOMAIN t : r = q \/ Below(r, q)})]

BRemoveAll(t, rel) == RemoveAllAt(t, BPath(rel))

\* afero.Fs.Mkdir
MkdirAt(t, q, up) ==
    IF q \in DOMAIN t THEN [err |-> "EEXIST", t |-> t]
    ELSE IF up \notin DOMAIN t THEN [err |-> "ENOENT", t |-> t]
    ELSE IF ~IsDirIn(t, up) THEN [err |-> "ENOTDIR", t |-> t]
    ELSE [err |-> "nil", t |-> With(t, q, DirEntry)]

BMkdir(t, rel) == MkdirAt(t, BPath(rel), Parent(BPath(rel)))

\* afero.Fs.MkdirAll: the directory and its missing ancestors
RECURSIVE BMkdirAllPath(_, _)
BMkdirAllPath(t, q) ==
    IF q \in DOMAIN t
    THEN IF t[q].kind = "dir" THEN [err |-> "nil", t |-> t]
         ELSE [err |-> "ENOTDIR", t |-> t]
    ELSE IF q = "/" THEN [err |-> "nil", t |-> With(t, q, DirEntry)]
    ELSE LET up == BMkdirAllPath(t, Parent(q))
         IN  IF up.err # "nil" THEN [err |-> up.err, t |-> t]
             ELSE [err |-> "nil", t |-> With(up.t, q, DirEntry)]

BMkdirAll(t, rel) == BMkdirAllPath(t, BPath(rel))

\* afero.Fs.Create: a new empty file, or an existing file truncated
CreateAt(t, q, up) ==
    IF q \in DOMAIN t
    THEN IF t[q].kind = "dir" THEN [err |-> "EISDIR", t |-> t]
         ELSE [err |-> "nil", t |-> With(t, q, [t[q] EXCEPT !.data = ""])]
    ELSE IF up \notin DOMAIN t THEN [err |-> "ENOENT", t |-> t]
    ELSE IF ~IsDirIn(t, up) THEN [err |-> "ENOTDIR", t |-> t]
    ELSE [err |-> "nil", t |-> With(t, q, NewFile)]

BCreate(t, rel) == CreateAt(t, BPath(rel), Parent(BPath(rel)))

\* the entries a rename of o to n moves, at the paths they move to
Moved(t, o, n) ==
    LET from == {r \in DOMAIN t : r = o \/ Below(r, o)}
    IN  [r \in {n \o SubSeq(m, Len(o) + 1, Len(m)) : m \in from} |->
            t[o \o SubSeq(r, Len(n) + 1, Len(r))]]

\* a tree with the entries of another written over it
Over(t, u) == [r \in DOMAIN t \cup DOMAIN u |-> IF r \in DOMAIN u THEN u[r] ELSE t[r]]

\* afero.Fs.Rename inside one backend: the entry and everything below it
\* move; a file replaces a file and a directory an empty directory
RenameAt(t, o, n, up) ==
    IF o \notin DOMAIN t THEN [err |-> "ENOENT", t |-> t]
    ELSE IF o = n THEN [err |-> "nil", t |-> t]
    ELSE IF o = "/" \/ n = "/" \/ Below(n, o) THEN [err |-> "EINVAL", t |-> t]
    ELSE IF up \notin DOMAIN t THEN [err |-> "ENOENT", t |-> t]
    ELSE IF ~IsDirIn(t, up) THEN [err |-> "ENOTDIR", t |-> t]
    ELSE IF n \in DOMAIN t /\ t[n].kind # t[o].kind
         THEN [err |-> IF t[n].kind = "dir" THEN "EISDIR" ELSE "ENOTDIR", t |-> t]
    ELSE IF n \in DOMAIN t /\ Children(t, n) # {} THEN [err |-> "ENOTEMPTY", t |-> t]
    ELSE [err |-> "nil",
          t |-> Over(Without(t, {r \in DOMAIN t : r = o \/ Below(r, o)} \cup {n}),
                     Moved(t, o, n))]

BRename(t, oldrel, newrel) ==
    RenameAt(t, BPath(oldrel), BPath(newrel), Parent(BPath(newrel)))

\* afero.Fs.Chmod: the permission bits of mode; the entry keeps its type
ChmodAt(t, q, mode) ==
    IF q \notin DOMAIN t THEN [err |-> "ENOENT", t |-> t]
    ELSE [err |-> "nil",
          t |-> With(t, q, [t[q] EXCEPT
                               !.mode = SubSeq(@, 1, 1) \o SubSeq(mode, 2, Len(mode))])]

BChmod(t, rel, mode) == ChmodAt(t, BPath(rel), mode)

\* afero.Fs.Chtimes
ChtimesAt(t, q, mtime) ==
    IF q \notin DOMAIN t THEN [err |-> "ENOENT", t |-> t]
    ELSE [err |-> "nil", t |-> With(t, q, [t[q] EXCEPT !.mtime = mtime])]

BChtimes(t, rel, mtime) == ChtimesAt(t, BPath(rel), mtime)

\* the names a directory read of the backend returns (File.Readdir(-1))
BReaddir(t, rel) == {Base(q) : q \in Children(t, BPath(rel))}

----------------------------------------------------------------------------
(* The filesystem operations of MountFs.  Each operator computes what the  *)
(* method returns and, for the methods that write, the backends after it.  *)

NoInfo ==
    [type |-> "none", name |-> "", isDir |-> FALSE, mode |-> "", mtime |-> ZeroTime]

\* mountFileInfo: Mode() is the mode of "/" on the mounted backend when it
\* can be stat-ed and the synthetic mode otherwise; IsDir() reads the
\* synthetic mode
MountMode(root) == IF root.err = "nil" THEN root.info.mode ELSE DirMode

\* mountFileInfo.ModTime() and mountDirEntry.ModTime(): the time of "/" on
\* the mounted backend when it can be stat-ed, the zero time otherwise
MountModTime(root) == IF root.err = "nil" THEN root.info.mtime ELSE ZeroTime

MountFileInfo(name, mount) ==
    [type |-> "mount", name |-> Base(name), isDir |-> TRUE,
     mode |-> MountMode(BStat(backend[mount.Fs], "/")),
     mtime |-> MountModTime(BStat(backend[mount.Fs], "/"))]

\* virtualFileInfo
VirtualFileInfo(name) ==
    [type |-> "virtual", name |-> Base(name), isDir |-> TRUE, mode |-> DirMode,
     mtime |-> ZeroTime]

\* the os.FileInfo a backend returns for an entry
BackendFileInfo(rel, e) ==
    [type |-> "backend", name |-> Base(BPath(rel)), isDir |-> e.kind = "dir",
     mode |-> e.mode, mtime |-> e.mtime]

\* the loop of stage 3 of Stat: the normalised name is a directory prefix
\* of some mount
IsVirtualDir(name) ==
    \E i \in 1..Len(mounts) :
        /\ HasPrefix(mounts[i].Prefix, name)
        /\ mounts[i].Prefix # name
        /\ (name = "/" \/ HasPrefix(mounts[i].Prefix, name \o "/"))

\* the call of the backend in Stat; fault is the error other than not-found
\* the call fails with ("nil" when it does not fail)
BackendStat(gm, fault) ==
    IF fault # "nil" THEN [err |-> fault, info |-> DirEntry]
    ELSE BStat(backend[gm.fs], gm.rel)

\* a Stat that asks the backend before it looks for a direct mount
StatBackendFirst(name, dd, gm, st) ==
    IF st.err = "nil"
    THEN [err |-> "nil", info |-> BackendFileInfo(gm.rel, st.info)]
    ELSE IF dd.ok THEN [err |-> "nil", info |-> MountFileInfo(name, dd.mount)]
    ELSE IF st.err # "ENOENT" THEN [err |-> st.err, info |-> NoInfo]
    ELSE IF IsVirtualDir(name)
         THEN [err |-> "nil", info |-> VirtualFileInfo(name)]
    ELSE [err |-> st.err, info |-> NoInfo]

\* the stages of Stat for the normalised name: dd is what directDir
\* returned, gm what GetMount returned and st what the backend returned
StatStages(name, dd, gm, st) ==
    IF dd.ok THEN [err |-> "nil", info |-> MountFileInfo(name, dd.mount)]
    ELSE IF st.err = "nil"
         THEN [err |-> "nil", info |-> BackendFileInfo(gm.rel, st.info)]
    ELSE IF st.err # "ENOENT" THEN [err |-> st.err, info |-> NoInfo]
    ELSE IF IsVirtualDir(name)
         THEN [err |-> "nil", info |-> VirtualFileInfo(name)]
    ELSE [err |-> st.err, info |-> NoInfo]

StatResolved(name, gm, fault) ==
    StatStages(name, directDir(name), gm, BackendStat(gm, fault))

\* MountFs.Stat
Stat(p, fault) == StatResolved(NormalizePath(p), GetMount(NormalizePath(p)), fault)

\* the backends that have the method LstatIfPossible (afero.Lstater); the
\* others are asked with Stat
Lstaters == {"A"}

\* MountFs.LstatIfPossible: the backend the name resolves to is asked, with
\* its LstatIfPossible when it has one (lstat: the flag it returns) and with
\* its Stat when not; no backend of the model holds a symbolic link
LstatIfPossible(p) ==
    [err |-> BStat(backend[GetMount(p).fs], GetMount(p).rel).err,
     lstat |-> GetMount(p).fs \in Lstaters,
     info |-> IF BStat(backend[GetMount(p).fs], GetMount(p).rel).err = "nil"
              THEN BackendFileInfo(GetMount(p).rel,
                       BStat(backend[GetMount(p).fs], GetMount(p).rel).info)
              ELSE NoInfo]

\* the result of a method that forwards to one backend: the error and the
\* backends with the tree of that backend replaced
\* afero.ReadOnlyFs: a backend the MountFs holds through the wrapper answers
\* every call that writes with EPERM and keeps its tree t; r is what the
\* backend itself would answer
Unwrapped(fs, t, r) == r

Through(fs, t, r) == IF fs \in readonly THEN [err |-> "EPERM", t |-> t] ELSE r

Forward(fs, r) ==
    [err |-> Through(fs, backend[fs], r).err,
     b |-> [backend EXCEPT ![fs] = Through(fs, backend[fs], r).t]]

Refuse(err) == [err |-> err, b |-> backend]

\* MountFs.Create
Create(p) == Forward(GetMount(p).fs, BCreate(backend[GetMount(p).fs], GetMount(p).rel))

\* MountFs.Mkdir
Mkdir(p) ==
    IF directDir(p).ok THEN Refuse("EEXIST")
    ELSE Forward(GetMount(p).fs, BMkdir(backend[GetMount(p).fs], GetMount(p).rel))

\* a MkdirAll without the guard of the direct mount
MkdirAllUnguarded(p) ==
    Forward(GetMount(p).fs, BMkdirAll(backend[GetMount(p).fs], GetMount(p).rel))

\* MountFs.MkdirAll
MkdirAll(p) ==
    IF directDir(p).ok THEN Refuse("EEXIST")
    ELSE Forward(GetMount(p).fs, BMkdirAll(backend[GetMount(p).fs], GetMount(p).rel))

\* a Remove without the guard of the direct mount
RemoveUnguarded(p) ==
    IF hasChildMount(p) THEN Refuse("EMOUNT")
    ELSE Forward(GetMount(p).fs, BRemove(backend[GetMount(p).fs], GetMount(p).rel))

\* MountFs.Remove
Remove(p) ==
    IF directDir(p).ok THEN Refuse("EPERM")
    ELSE IF hasChildMount(p) THEN Refuse("EMOUNT")
    ELSE Forward(GetMount(p).fs, BRemove(backend[GetMount(p).fs], GetMount(p).rel))

\* a RemoveAll that looks for child mounts before the direct mount
RemoveAllChildFirst(p) ==
    IF hasChildMount(p) THEN Refuse("EMOUNT")
    ELSE IF directDir(p).ok THEN Refuse("EPERM")
    ELSE Forward(GetMount(p).fs, BRemoveAll(backend[GetMount(p).fs], GetMount(p).rel))

\* MountFs.RemoveAll
RemoveAll(p) ==
    IF directDir(p).ok THEN Refuse("EPERM")
    ELSE IF hasChildMount(p) THEN Refuse("EMOUNT")
    ELSE Forward(GetMount(p).fs, BRemoveAll(backend[GetMount(p).fs], GetMount(p).rel))

\* MountFs.Chmod
Chmod(p, mode) ==
    Forward(GetMount(p).fs, BChmod(backend[GetMount(p).fs], GetMount(p).rel, mode))

\* MountFs.Chtimes
Chtimes(p, mtime) ==
    Forward(GetMount(p).fs, BChtimes(backend[GetMount(p).fs], GetMount(p).rel, mtime))

\* the names of a set in ascending order
RECURSIVE SortAsc(_)
SortAsc(S) ==
    IF S = {} THEN <<>>
    ELSE LET least == CHOOSE x \in S : \A y \in S : ~StrLess(y, x)
         IN  <<least>> \o SortAsc(S \ {least})

\* copyFile gives up after the destination was created: the destination
\* is removed, whatever the removal answers
RolledBack(b, dstFs, t, q, err) ==
    [err |-> err, b |-> [b EXCEPT ![dstFs] = RemoveAt(t, q).t]]

\* a copyFile that leaves the destination it created when it gives up
CopiedNoRollback(b, dstFs, q, from, made, fault) ==
    IF from.err # "nil" THEN [err |-> from.err, b |-> b]
    ELSE IF made.err # "nil" THEN [err |-> made.err, b |-> b]
    ELSE IF fault # "nil" THEN [err |-> fault, b |-> [b EXCEPT ![dstFs] = made.t]]
    ELSE [err |-> "nil",
          b |-> [b EXCEPT ![dstFs] =
                    ChmodAt(With(made.t, q, [made.t[q] EXCEPT !.data = from.info.data]),
                            q, from.info.mode).t]]

\* a copyFile that copies the bytes and leaves the mode Create gave
CopiedBytesOnly(b, dstFs, q, from, made, fault) ==
    IF from.err # "nil" THEN [err |-> from.err, b |-> b]
    ELSE IF made.err # "nil" THEN [err |-> made.err, b |-> b]
    ELSE IF fault # "nil" THEN RolledBack(b, dstFs, made.t, q, fault)
    ELSE [err |-> "nil",
          b |-> [b EXCEPT ![dstFs] =
                    With(made.t, q, [made.t[q] EXCEPT !.data = from.info.data])]]

\* the end of copyFile: from is what opening the source returned, made
\* what creating the destination q returned; the bytes and then the mode
\* of the source are written to the destination.  fault is the step after
\* the creation that fails: the copy of the bytes (ECOPY), the Stat of the
\* source (ESTAT), the Chmod of the destination (ECHMOD), or none (nil)
Copied(b, dstFs, q, from, made, fault) ==
    IF from.err # "nil" THEN [err |-> from.err, b |-> b]
    ELSE IF made.err # "nil" THEN [err |-> made.err, b |-> b]
    ELSE IF fault = "ECOPY" THEN RolledBack(b, dstFs, made.t, q, fault)
    ELSE IF fault = "ESTAT"
         THEN RolledBack(b, dstFs,
                  With(made.t, q, [made.t[q] EXCEPT !.data = from.info.data]),
                  q, fault)
    ELSE IF fault = "ECHMOD"
         THEN RolledBack(b, dstFs,
                  With(made.t, q, [made.t[q] EXCEPT !.data = from.info.data]),
                  q, fault)
    ELSE [err |-> "nil",
          b |-> [b EXCEPT ![dstFs] =
                    ChmodAt(With(made.t, q, [made.t[q] EXCEPT !.data = from.info.data]),
                            q, from.info.mode).t]]

\* copyFile
copyFile(b, srcFs, src, dstFs, dst, fault) ==
    Copied(b, dstFs, BPath(dst), BStat(b[srcFs], src),
           Through(dstFs, b[dstFs], BCreate(b[dstFs], dst)), fault)

\* MountFs.crossRenameDir and its loop over the entries of the source
\* directory, read in ascending order of their names
RECURSIVE crossRenameDir(_, _, _, _, _, _)
RECURSIVE crossRenameLoop(_, _, _, _, _, _, _)
RECURSIVE crossRenameEntry(_, _, _, _, _, _)
RECURSIVE crossRenameNext(_, _, _, _, _, _, _)

\* a loop body that makes the directory of a subdirectory and does not
\* descend into it
crossRenameShallow(b, srcFs, srcPath, dstFs, dstPath, fault) ==
    IF IsDirIn(b[srcFs], BPath(srcPath))
    THEN [err |-> BMkdirAll(b[dstFs], dstPath).err,
          b |-> [b EXCEPT ![dstFs] = BMkdirAll(b[dstFs], dstPath).t]]
    ELSE copyFile(b, srcFs, srcPath, dstFs, dstPath, fault)

\* the body of the loop: a directory is moved by recursion, a file copied
crossRenameEntry(b, srcFs, srcPath, dstFs, dstPath, fault) ==
    IF IsDirIn(b[srcFs], BPath(srcPath))
    THEN crossRenameDir(b, srcFs, srcPath, dstFs, dstPath, fault)
    ELSE copyFile(b, srcFs, srcPath, dstFs, dstPath, fault)

\* the loop stops at the first error
crossRenameNext(one, names, srcFs, src, dstFs, dst, fault) ==
    IF one.err # "nil" THEN one
    ELSE crossRenameLoop(one.b, Tail(names), srcFs, src, dstFs, dst, fault)

crossRenameLoop(b, names, srcFs, src, dstFs, dst, fault) ==
    IF Len(names) = 0 THEN [err |-> "nil", b |-> b]
    ELSE crossRenameNext(
             crossRenameEntry(b, srcFs, PathJoin(src, Head(names)),
                              dstFs, PathJoin(dst, Head(names)), fault),
             names, srcFs, src, dstFs, dst, fault)

\* the end of crossRenameDir: the source is removed when the loop is done
SourceRemoved(done, srcFs, src) ==
    IF done.err # "nil" THEN done
    ELSE [err |-> Through(srcFs, done.b[srcFs], BRemoveAll(done.b[srcFs], src)).err,
          b |-> [done.b EXCEPT ![srcFs] =
                    Through(srcFs, done.b[srcFs], BRemoveAll(done.b[srcFs], src)).t]]

\* crossRenameDir after dstFs.MkdirAll returned made
DirCreated(b, made, srcFs, src, dstFs, dst, fault) ==
    IF made.err # "nil" THEN [err |-> made.err, b |-> b]
    ELSE IF BStat(b[srcFs], src).err # "nil"
         THEN [err |-> BStat(b[srcFs], src).err, b |-> [b EXCEPT ![dstFs] = made.t]]
    ELSE SourceRemoved(
             crossRenameLoop([b EXCEPT ![dstFs] = made.t],
                             SortAsc(BReaddir(b[srcFs], src)), srcFs, src, dstFs,
                             dst, fault),
             srcFs, src)

crossRenameDir(b, srcFs, src, dstFs, dst, fault) ==
    DirCreated(b, Through(dstFs, b[dstFs], BMkdirAll(b[dstFs], dst)),
               srcFs, src, dstFs, dst, fault)

\* the end of crossRename for a file: the source is removed when the copy
\* is made
FileCopied(copied, srcFs, src) ==
    IF copied.err # "nil" THEN copied
    ELSE [err |-> Through(srcFs, copied.b[srcFs], BRemove(copied.b[srcFs], src)).err,
          b |-> [copied.b EXCEPT ![srcFs] =
                    Through(srcFs, copied.b[srcFs], BRemove(copied.b[srcFs], src)).t]]

\* crossRename after the source was opened and stat-ed
SourceOpened(from, srcFs, src, dstFs, dst, fault) ==
    IF from.err # "nil" THEN Refuse(from.err)
    ELSE IF from.info.kind = "dir"
         THEN crossRenameDir(backend, srcFs, src, dstFs, dst, fault)
    ELSE FileCopied(copyFile(backend, srcFs, src, dstFs, dst, fault), srcFs, src)

\* MountFs.crossRename
crossRename(srcFs, src, dstFs, dst, fault) ==
    SourceOpened(BStat(backend[srcFs], src), srcFs, src, dstFs, dst, fault)

\* Rename after both names are resolved
RenameResolved(old, new, fault) ==
    IF old.fs # new.fs THEN crossRename(old.fs, old.rel, new.fs, new.rel, fault)
    ELSE Forward(old.fs, BRename(backend[old.fs], old.rel, new.rel))

\* MountFs.Rename; fault is the step of copyFile that fails
Rename(oldname, newname, fault) ==
    IF hasChildMount(oldname) THEN Refuse("EMOUNT")
    ELSE RenameResolved(GetMount(oldname), GetMount(newname), fault)

----------------------------------------------------------------------------
(* The merged directory handle (mountFsFile).                              *)

\* no handle held; fpos is the position of the wrapped backend handle
NoHandle ==
    [kind |-> "none", path |-> "", entries |-> <<>>, offset |-> 0, fpos |-> 0]

\* the entries of the backend directory, keyed by name (dirEntry)
RawEntries(t, rel) ==
    [n \in BReaddir(t, rel) |->
        [name |-> n, type |-> "backend",
         isDir |-> IsDirIn(t, PathJoin(BPath(rel), n)),
         mode |-> t[PathJoin(BPath(rel), n)].mode,
         mtime |-> t[PathJoin(BPath(rel), n)].mtime]]

\* mountDirEntry and the dirEntry of a virtualFileInfo
MountDirEntry(name, mount) ==
    [name |-> name, type |-> "mount", isDir |-> TRUE, mode |-> DirMode,
     mount |-> mount]
VirtualDirEntry(name) ==
    [name |-> name, type |-> "virtual", isDir |-> TRUE, mode |-> DirMode]

\* Info() of an entry of a listing, with what Mode() and ModTime() of the
\* os.FileInfo return when they are asked: a dirEntry holds the os.FileInfo
\* of the backend or a virtualFileInfo, a mountDirEntry is its own
\* os.FileInfo
EntryInfo(e) ==
    [type |-> e.type, name |-> e.name, isDir |-> e.isDir, mode |-> e.mode,
     mtime |-> IF e.type = "mount"
               THEN MountModTime(BStat(backend[e.mount.Fs], "/"))
               ELSE IF e.type = "virtual" THEN ZeroTime ELSE e.mtime]

\* a merge in which a mount never replaces an entry the map holds
RECURSIVE MergeKeepExisting(_, _, _)
MergeKeepExisting(entryMap, ms, dir) ==
    IF Len(ms) = 0 THEN entryMap
    ELSE LET parts == Split(TrimPrefix(TrimPrefix(Head(ms).Prefix, dir), "/"))
             entry == IF Len(parts) = 1 THEN MountDirEntry(parts[1], Head(ms))
                      ELSE VirtualDirEntry(parts[1])
         IN  IF parts[1] \in DOMAIN entryMap
             THEN MergeKeepExisting(entryMap, Tail(ms), dir)
             ELSE MergeKeepExisting(
                      [n \in DOMAIN entryMap \cup {parts[1]} |->
                          IF n = parts[1] THEN entry ELSE entryMap[n]],
                      Tail(ms), dir)

\* step 3 of collectEntries: the mounts under the directory, in the order
\* of the table, written into the map of entries
RECURSIVE MergeMounts(_, _, _)
MergeMounts(entryMap, ms, dir) ==
    IF Len(ms) = 0 THEN entryMap
    ELSE LET relPath == TrimPrefix(TrimPrefix(Head(ms).Prefix, dir), "/")
             parts == Split(relPath)
             name == parts[1]
             isDirectMount == Len(parts) = 1
             exists == name \in DOMAIN entryMap
             put(e) == [n \in DOMAIN entryMap \cup {name} |->
                           IF n = name THEN e ELSE entryMap[n]]
         IN  IF isDirectMount
             THEN MergeMounts(put(MountDirEntry(name, Head(ms))), Tail(ms), dir)
             ELSE IF ~exists
                  THEN MergeMounts(put(VirtualDirEntry(name)), Tail(ms), dir)
             ELSE MergeMounts(entryMap, Tail(ms), dir)

\* step 4 of collectEntries: the map as a list sorted by name
EntryList(entryMap) ==
    LET names == SortAsc(DOMAIN entryMap)
    IN  [i \in 1..Len(names) |-> entryMap[names[i]]]

\* mountFsFile.collectEntries for the handle of directory path whose
\* backend directory holds raw
collectEntries(raw, path) == EntryList(MergeMounts(raw, getMountsUnder(path), path))

\* newMountFsFile
newMountFsFile(raw, p) ==
    [kind |-> "dir", path |-> NormalizePath(p),
     entries |-> collectEntries(raw, NormalizePath(p)), offset |-> 0,
     fpos |-> 0]

\* OpenFile with flag O_RDONLY after the backend opened and stat-ed the file
Opened(name, gm, st) ==
    IF st.err # "nil" THEN [err |-> st.err, h |-> NoHandle]
    ELSE IF st.info.kind = "dir"
         THEN [err |-> "nil",
               h |-> newMountFsFile(RawEntries(backend[gm.fs], gm.rel), name)]
    ELSE [err |-> "nil",
          h |-> [kind |-> "file", path |-> NormalizePath(name),
                 entries |-> <<>>, offset |-> 0, fpos |-> 0]]

OpenResolved(name, gm) == Opened(name, gm, BStat(backend[gm.fs], gm.rel))

\* MountFs.OpenFile with flag O_RDONLY
OpenFile(name) == OpenResolved(name, GetMount(name))

\* the entries of the root of a new afero.NewMemMapFs()
EmptyRaw == [n \in {} |-> VirtualDirEntry(n)]

\* an Open that does not look for a virtual directory
OpenBackendOnly(name, st) == OpenFile(name)

\* Open after Stat returned st for the normalised name
OpenStated(name, st) ==
    IF st.err = "nil" /\ st.info.isDir /\ st.info.type = "virtual"
    THEN [err |-> "nil", h |-> newMountFsFile(EmptyRaw, name)]
    ELSE OpenFile(name)

\* MountFs.Open
Open(p) == OpenStated(NormalizePath(p), Stat(NormalizePath(p), "nil"))

\* a Readdir that does not move the read offset
ReaddirOverlapping(h, count) ==
    LET start == h.offset
        full == Len(h.entries)
        end == IF count > 0 /\ start + count < full THEN start + count ELSE full
    IN  IF h.offset >= Len(h.entries)
        THEN [err |-> IF count <= 0 THEN "nil" ELSE "EOF", infos |-> <<>>,
              offset |-> h.offset]
        ELSE [err |-> "nil", infos |-> SubSeq(h.entries, start + 1, end),
              offset |-> start]

\* the entries a handle of directory path would collect now
CollectedNow(path, gm) ==
    collectEntries(
        IF IsDirIn(backend[gm.fs], BPath(gm.rel))
        THEN RawEntries(backend[gm.fs], gm.rel) ELSE EmptyRaw,
        path)

\* a Readdir that collects the entries when it is called, not at open time
ReadNow(now, h, count) ==
    LET start == h.offset
        full == Len(now)
        end == IF count > 0 /\ start + count < full THEN start + count ELSE full
    IN  IF start >= full
        THEN [err |-> IF count <= 0 THEN "nil" ELSE "EOF", infos |-> <<>>,
              offset |-> h.offset]
        ELSE [err |-> "nil", infos |-> SubSeq(now, start + 1, end),
              offset |-> end]

ReaddirLazy(h, count) == ReadNow(CollectedNow(h.path, GetMount(h.path)), h, count)

\* mountFsFile.Readdir: the entries returned, the error and the offset after
Readdir(h, count) ==
    LET start == h.offset
        full == Len(h.entries)
        end == IF count > 0 /\ start + count < full THEN start + count ELSE full
        infos == SubSeq(h.entries, start + 1, end)
    IN  IF h.offset >= Len(h.entries)
        THEN [err |-> IF count <= 0 THEN "nil" ELSE "EOF", infos |-> <<>>,
              offset |-> h.offset]
        ELSE IF count > 0 /\ Len(infos) = 0
             THEN [err |-> "EOF", infos |-> <<>>, offset |-> end]
        ELSE [err |-> "nil", infos |-> infos, offset |-> end]

\* a Readdirnames that signals the end of the stream for every count
ReaddirnamesEOF(h, count) ==
    IF h.offset >= Len(h.entries)
    THEN [err |-> "EOF", names |-> <<>>, offset |-> h.offset]
    ELSE [err |-> "nil",
          names |-> [i \in 1..(Len(h.entries) - h.offset) |->
                        h.entries[h.offset + i].name],
          offset |-> Len(h.entries)]

\* mountFsFile.Readdirnames: the names returned, the error and the offset
\* after
Readdirnames(h, count) ==
    LET start == h.offset
        full == Len(h.entries)
        end == IF count > 0 /\ start + count < full THEN start + count ELSE full
        remainingEntries == SubSeq(h.entries, start + 1, end)
        names == [i \in 1..Len(remainingEntries) |-> remainingEntries[i].name]
    IN  IF h.offset >= Len(h.entries)
        THEN [err |-> IF count <= 0 THEN "nil" ELSE "EOF", names |-> <<>>,
              offset |-> h.offset]
        ELSE IF count > 0 /\ Len(names) = 0
             THEN [err |-> "EOF", names |-> <<>>, offset |-> end]
        ELSE [err |-> "nil", names |-> names, offset |-> end]

\* afero.File.Seek of the wrapped backend handle: the position after
BSeek(pos, offset, whence) ==
    IF whence = "SeekStart" THEN offset ELSE pos + offset

\* a Seek that is forwarded only
SeekForwardOnly(h, offset, whence) ==
    [offset |-> h.offset, fpos |-> BSeek(h.fpos, offset, whence)]

\* mountFsFile.Seek: the read offset and the position of the backend handle
\* after
Seek(h, offset, whence) ==
    [offset |-> IF whence = "SeekStart" /\ offset = 0 THEN 0 ELSE h.offset,
     fpos |-> BSeek(h.fpos, offset, whence)]

----------------------------------------------------------------------------
(* The state machine.  last records the call made last and what it         *)
(* returned; handle is the directory handle the caller holds.              *)

NoCall ==
    [op |-> "none", path |-> "", path2 |-> "", err |-> "nil", fs |-> "",
     rel |-> "", info |-> NoInfo, names |-> <<>>, count |-> 0]

Call(op, path, err) == [NoCall EXCEPT !.op = op, !.path = path, !.err = err]

\* the goroutines that call the MountFs at one time
Procs == {1, 2}

\* sync.RWMutex with no holder: w is the goroutine that holds the exclusive
\* lock (0 for none), r the goroutines that hold the shared lock
Unlocked == [w |-> 0, r |-> {}]

\* a goroutine that is in no call.  pc is the place in the code of the call;
\* direct, child, fs and rel are what the call has read from the table so
\* far, torn whether it read the table between two writes of an update
Idle ==
    [op |-> "none", path |-> "", arg |-> "", flag |-> 0, pc |-> 0,
     direct |-> FALSE, child |-> FALSE, fs |-> "", rel |-> "", err |-> "nil",
     torn |-> FALSE]

\* one caller at a time: the lock is free and no call is in progress
Quiet == mu = Unlocked /\ run = [t \in Procs |-> Idle]

\* no session token signed yet
NoCookie == [user |-> "", ts |-> 0, token |-> ""]
NoToken == clock = 0 /\ cookie = NoCookie

\* no Rename between two backends under way.  was is the source backend as
\* the call found it, stack the calls of copyFile and crossRenameDir that
\* have not returned yet, the innermost last
NoJob ==
    [on |-> FALSE, old |-> "", new |-> "", srcFs |-> "", src |-> "",
     dstFs |-> "", dst |-> "", was |-> <<>>, stack |-> <<>>, err |-> "nil"]

\* no FsContext and no AuthFS
NoContext == [Config |-> <<>>, users |-> <<>>]
NoAuth == ""

\* a MountFs made by NewMountFs over plain backends, outside a FsContext
NoSession == readonly = {} /\ ctx = NoContext /\ auth = NoAuth /\ NoToken /\ job = NoJob

\* NewMountFs over backends that hold nothing yet
Init ==
    /\ mounts = <<>>
    /\ backend = [b \in BackendIds |-> EmptyTree]
    /\ handle = NoHandle
    /\ last = NoCall
    /\ writes = 0
    /\ Quiet
    /\ NoSession

\* MountFs.Mount on the table ms: the error and the table after
MountInto(ms, prefix, fs) ==
    LET pre == MountPrefix(prefix)
    IN  IF pre = "/" THEN [err |-> "EINVAL", mounts |-> ms]
        ELSE IF \E i \in 1..Len(ms) : ms[i].Prefix = pre
        THEN [err |-> "EEXIST", mounts |-> ms]
        ELSE [err |-> "nil",
              mounts |-> SortDesc(Append(ms, [Prefix |-> pre, Fs |-> fs]))]

\* MountFs.Mount on the table of this MountFs
Mount(prefix, fs) == MountInto(mounts, prefix, fs)

\* MountFs.Unmount: ENOENT stands for the answer false
Unmount(prefix) ==
    LET pre == MountPrefix(prefix)
        S == {i \in 1..Len(mounts) : mounts[i].Prefix = pre}
    IN  IF S # {}
        THEN [err |-> "nil",
              mounts |-> SubSeq(mounts, 1, First(S) - 1)
                             \o SubSeq(mounts, First(S) + 1, Len(mounts))]
        ELSE [err |-> "ENOENT", mounts |-> mounts]

\* MountFs.Mount(prefix, fs) on a table of fewer than max mounts
DoMount(prefix, fs, max) ==
    /\ Len(mounts) < max
    /\ \E r \in {Mount(prefix, fs)} :
           /\ mounts' = r.mounts
           /\ last' = Call("Mount", prefix, r.err)
    /\ UNCHANGED <<backend, handle, writes, locks, session>>

\* MountFs.Unmount(prefix)
DoUnmount(prefix) ==
    /\ \E r \in {Unmount(prefix)} :
           /\ mounts' = r.mounts
           /\ last' = Call("Unmount", prefix, r.err)
    /\ UNCHANGED <<backend, handle, writes, locks, session>>

\* MountFs.ListMounts: a copy of the table
ListMounts == mounts

\* MountFs.ListMounts(); the caller reads the prefixes in the order returned
DoListMounts ==
    /\ last' = [Call("ListMounts", "", "nil") EXCEPT
                   !.names = [i \in 1..Len(ListMounts) |-> ListMounts[i].Prefix]]
    /\ UNCHANGED <<mounts, backend, handle, writes, locks, session>>

\* MountFs.GetMount(p)
DoGetMount(p) ==
    \E gm \in {GetMount(p)} :
        /\ last' = [Call("GetMount", p, "nil") EXCEPT !.fs = gm.fs, !.rel = gm.rel]
        /\ UNCHANGED <<mounts, backend, handle, writes, locks, session>>

\* MountFs.Stat(p); the backend call may fail with an error of its own
DoStat(p, fault) ==
    \E st \in {Stat(p, fault)} :
        /\ last' = [Call("Stat", p, st.err) EXCEPT !.info = st.info, !.rel = fault]
        /\ UNCHANGED <<mounts, backend, handle, writes, locks, session>>

\* MountFs.LstatIfPossible(p); count is 1 when the flag returned is true
DoLstatIfPossible(p) ==
    \E st \in {LstatIfPossible(p)} :
        /\ last' = [Call("LstatIfPossible", p, st.err)
                       EXCEPT !.info = st.info,
                              !.count = IF st.lstat THEN 1 ELSE 0]
        /\ UNCHANGED <<mounts, backend, handle, writes, locks, session>>

\* a method that writes to the backends and returns an error
Write(op, p, p2, r) ==
    /\ writes < MaxWrites
    /\ writes' = writes + 1
    /\ backend' = r.b
    /\ last' = [Call(op, p, r.err) EXCEPT !.path2 = p2]
    /\ UNCHANGED <<mounts, handle, locks, session>>

DoCreate(p) == Write("Create", p, "", Create(p))

DoMkdir(p) == Write("Mkdir", p, "", Mkdir(p))

DoMkdirAll(p) == Write("MkdirAll", p, "", MkdirAll(p))

DoRemove(p) == Write("Remove", p, "", Remove(p))

DoRemoveAll(p) == Write("RemoveAll", p, "", RemoveAll(p))

DoChmod(p, mode) == Write("Chmod", p, "", Chmod(p, mode))

DoChtimes(p, mtime) == Write("Chtimes", p, "", Chtimes(p, mtime))

\* MountFs.Rename(p, p2); a step of a copy it makes may fail
DoRename(p, p2, fault) ==
    /\ writes < MaxWrites
    /\ writes' = writes + 1
    /\ \E r \in {Rename(p, p2, fault)} :
           /\ backend' = r.b
           /\ last' = [Call("Rename", p, r.err) EXCEPT !.path2 = p2, !.rel = fault]
    /\ UNCHANGED <<mounts, handle, locks, session>>

\* MountFs.Open(p): the caller holds the handle returned
DoOpen(p) ==
    \E o \in {Open(p)} :
        /\ handle' = o.h
        /\ last' = Call("Open", p, o.err)
        /\ UNCHANGED <<mounts, backend, writes, locks, session>>

\* MountFs.OpenFile(p, O_RDONLY, 0): the caller holds the handle returned
DoOpenFile(p) ==
    \E o \in {OpenFile(p)} :
        /\ handle' = o.h
        /\ last' = Call("OpenFile", p, o.err)
        /\ UNCHANGED <<mounts, backend, writes, locks, session>>

\* File.Close on the handle held
DoClose ==
    /\ handle.kind # "none"
    /\ handle' = NoHandle
    /\ last' = Call("Close", handle.path, "nil")
    /\ UNCHANGED <<mounts, backend, writes, locks, session>>

\* mountFsFile.Readdir(count) on the directory handle held
DoReaddir(count) ==
    /\ handle.kind = "dir"
    /\ \E r \in {Readdir(handle, count)} :
           /\ handle' = [handle EXCEPT !.offset = r.offset]
           /\ last' = [Call("Readdir", handle.path, r.err) EXCEPT
                          !.names = [i \in 1..Len(r.infos) |-> r.infos[i].name],
                          !.count = count]
    /\ UNCHANGED <<mounts, backend, writes, locks, session>>

\* Info() of entry i of the listing the handle holds
DoInfo(i) ==
    /\ handle.kind = "dir"
    /\ i \in 1..Len(handle.entries)
    /\ last' = [Call("Info", handle.path, "nil") EXCEPT
                   !.info = EntryInfo(handle.entries[i]), !.count = i]
    /\ UNCHANGED <<mounts, backend, handle, writes, locks, session>>

\* mountFsFile.Readdirnames(count) on the directory handle held
DoReaddirnames(count) ==
    /\ handle.kind = "dir"
    /\ \E r \in {Readdirnames(handle, count)} :
           /\ handle' = [handle EXCEPT !.offset = r.offset]
           /\ last' = [Call("Readdirnames", handle.path, r.err) EXCEPT
                          !.names = r.names, !.count = count]
    /\ UNCHANGED <<mounts, backend, writes, locks, session>>

\* mountFsFile.Seek(offset, whence) on the directory handle held
DoSeek(offset, whence) ==
    /\ handle.kind = "dir"
    /\ \E r \in {Seek(handle, offset, whence)} :
           /\ handle' = [handle EXCEPT !.offset = r.offset, !.fpos = r.fpos]
           /\ last' = [Call("Seek", handle.path, "nil") EXCEPT
                          !.count = offset, !.rel = whence]
    /\ UNCHANGED <<mounts, backend, writes, locks, session>>

----------------------------------------------------------------------------
(* The mount-table specification: Mount, Unmount and GetMount called with  *)
(* prefixes and paths in every form, canonical or not.                     *)

\* the prefixes Mount and Unmount are called with
TablePrefixes == {"/a", "/a/b", "/ab", "b/", "/a//b", "/"}

\* the paths GetMount is called with
TableQueries ==
    {"/", "/a", "/a/", "/a/b", "/a/b/a", "/a/b/a/b", "/ab", "/ab/a", "/b/a",
     "a/../b", "/a/./b", "/a/a", "."}

\* the backends mounted in this specification
TableFs == {"A", "B"}

TableNext ==
    \/ \E prefix \in TablePrefixes, fs \in TableFs :
          DoMount(prefix, fs, MaxTableMounts)
    \/ \E prefix \in TablePrefixes : DoUnmount(prefix)
    \/ \E p \in TableQueries : DoGetMount(p)

SpecTable == Init /\ [][TableNext]_vars

\* the prefixes Mount and Unmount are called with where the errors of
\* Mount are looked at: forms of the root and forms of /a/b
MountArgs == {"", "/", "//", ".", "/.", "/a/..", "/a/b", "/a//b", "a/b/", "/a"}

MountNext ==
    \/ \E prefix \in MountArgs, fs \in TableFs :
          DoMount(prefix, fs, MaxTableMounts)
    \/ \E prefix \in MountArgs : DoUnmount(prefix)

SpecMount == Init /\ [][MountNext]_vars

\* the prefixes mounted where the order of the table is looked at: prefixes
\* that extend one another and prefixes that do not
ListPrefixes == {"/a", "/ab", "/a/b", "/b", "/b/a/b"}

ListNext ==
    \/ \E prefix \in ListPrefixes, fs \in TableFs :
          DoMount(prefix, fs, MaxTableMounts)
    \/ \E prefix \in ListPrefixes : DoUnmount(prefix)
    \/ DoListMounts

SpecList == Init /\ [][ListNext]_vars

----------------------------------------------------------------------------
(* The filesystem specifications.  NewMountFs and Mount are handed         *)
(* backends that hold files already, so the backends start in any of a     *)
(* few layouts.                                                            *)

\* a file a backend holds before it is handed over
OldFile == [kind |-> "file", data |-> "xy", mode |-> "-rw-------", mtime |-> 1]

Tree(files, dirs) ==
    [q \in {"/"} \cup files \cup dirs |-> IF q \in files THEN OldFile ELSE DirEntry]

\* what the default backend holds at the start
DefaultLayouts ==
    { Tree({}, {}), Tree({"/a"}, {}), Tree({"/b"}, {"/a"}),
      Tree({"/a/b"}, {"/a"}), Tree({"/b"}, {"/a", "/a/b"}) }

\* what a mounted backend holds at the start
MountedLayouts == { Tree({}, {}), Tree({"/a"}, {"/b"}) }

\* the prefixes Mount and Unmount are called with
FsPrefixes == {"/a", "/a/b", "a//b"}

\* the prefixes Mount and Unmount are called with where the operations
\* read: one of three segments as well
DeepPrefixes == FsPrefixes \cup {"/a/b/a"}

\* the backends mounted in these specifications
FsMounted == {"A", "B"}

\* the paths the operations are called with
FsPaths == {"/", "/a", "/a/b", "/b"}

\* the errors other than not-found a backend Stat fails with
Faults == {"nil", "EIO"}

\* the counts Readdir is called with
Counts == {-1, 0, 1, 2}

InitFs ==
    /\ mounts = <<>>
    /\ backend \in {[b \in BackendIds |->
                        IF b = DefaultFs THEN d
                        ELSE IF b \in FsMounted THEN m ELSE EmptyTree] :
                    d \in DefaultLayouts, m \in MountedLayouts}
    /\ handle = NoHandle
    /\ last = NoCall
    /\ writes = 0
    /\ Quiet
    /\ NoSession

\* the reading operations; the caller mounts while it holds no directory
\* handle
Next ==
    \/ \E prefix \in DeepPrefixes, fs \in FsMounted :
          handle = NoHandle /\ DoMount(prefix, fs, MaxMounts)
    \/ \E prefix \in DeepPrefixes : handle = NoHandle /\ DoUnmount(prefix)
    \/ \E p \in FsPaths, fault \in Faults : DoStat(p, fault)
    \/ \E p \in FsPaths : DoOpen(p)
    \/ \E count \in Counts : DoReaddir(count)
    \/ DoClose

Spec == InitFs /\ [][Next]_vars

\* Stat and LstatIfPossible of the same names
LstatNext ==
    \/ \E prefix \in DeepPrefixes, fs \in FsMounted : DoMount(prefix, fs, MaxMounts)
    \/ \E prefix \in DeepPrefixes : DoUnmount(prefix)
    \/ \E p \in FsPaths : DoStat(p, "nil")
    \/ \E p \in FsPaths : DoLstatIfPossible(p)

SpecLstat == InitFs /\ [][LstatNext]_vars

\* the seeks a handle is called with: to the start, to another position
\* and relative to the current position
Seeks == {<<0, "SeekStart">>, <<1, "SeekStart">>, <<0, "SeekCurrent">>}

\* the prefixes mounted and the paths opened where handles are read: with
\* both prefixes mounted over a backend that holds /a and /b the root lists
\* three names
HandlePrefixes == {"/ab", "/a/b"}

HandlePaths == {"/", "/a"}

\* the paths removed and made while a handle is held
HandleWrites == {"/b"}

\* the operations on a handle; the caller mounts and unmounts while it
\* holds no handle
HandleNext ==
    \/ \E prefix \in HandlePrefixes, fs \in FsMounted :
          handle = NoHandle /\ DoMount(prefix, fs, MaxMounts)
    \/ \E prefix \in HandlePrefixes : handle = NoHandle /\ DoUnmount(prefix)
    \/ \E p \in HandlePaths : DoOpen(p)
    \/ \E p \in HandlePaths : DoOpenFile(p)
    \/ \E count \in Counts : DoReaddir(count)
    \/ \E count \in Counts : DoReaddirnames(count)
    \/ \E sk \in Seeks : DoSeek(sk[1], sk[2])
    \/ DoClose

SpecHandle == InitFs /\ [][HandleNext]_vars

\* the caller mounts, unmounts and changes the backends while it holds a
\* handle and reads it
StaleNext ==
    \/ \E prefix \in HandlePrefixes, fs \in FsMounted :
          DoMount(prefix, fs, MaxMounts)
    \/ \E prefix \in HandlePrefixes : DoUnmount(prefix)
    \/ \E p \in HandlePaths : DoOpen(p)
    \/ \E count \in Counts : DoReaddir(count)
    \/ \E p \in HandleWrites : DoRemoveAll(p)
    \/ \E p \in HandleWrites : DoMkdir(p)

SpecStale == InitFs /\ [][StaleNext]_vars

\* the operations that remove and move
WriteNext ==
    \/ \E prefix \in FsPrefixes, fs \in FsMounted : DoMount(prefix, fs, MaxMounts)
    \/ \E p \in FsPaths : DoRemove(p)
    \/ \E p \in FsPaths : DoRemoveAll(p)
    \/ \E p \in FsPaths, p2 \in FsPaths : DoRename(p, p2, "nil")

SpecWrite == InitFs /\ [][WriteNext]_vars

\* the steps of copyFile that fail, nil for none
CopyFaults == {"nil", "ECOPY", "ESTAT", "ECHMOD"}

\* a file and a directory tree the default backend holds where entries are
\* moved between backends
RenameLayouts ==
    { Tree({"/a"}, {}), Tree({"/a/a", "/a/b/a"}, {"/a", "/a/b"}) }

\* the prefixes mounted and the names renamed there
RenamePrefixes == {"/b", "/a/b"}

RenamePaths == {"/a", "/b", "/b/a", "/b/b"}

InitRename ==
    /\ mounts = <<>>
    /\ backend \in {[b \in BackendIds |->
                        IF b = DefaultFs THEN d
                        ELSE IF b \in FsMounted THEN m ELSE EmptyTree] :
                    d \in RenameLayouts, m \in MountedLayouts}
    /\ handle = NoHandle
    /\ last = NoCall
    /\ writes = 0
    /\ Quiet
    /\ NoSession

\* the renames, between the backends and inside one
RenameNext ==
    \/ \E prefix \in RenamePrefixes, fs \in FsMounted :
          DoMount(prefix, fs, MaxMounts)
    \/ \E p \in RenamePaths, p2 \in RenamePaths, fault \in CopyFaults :
          DoRename(p, p2, fault)

SpecRename == InitRename /\ [][RenameNext]_vars

\* the operations that create
MakeNext ==
    \/ \E prefix \in FsPrefixes, fs \in FsMounted : DoMount(prefix, fs, MaxMounts)
    \/ \E p \in FsPaths : DoCreate(p)
    \/ \E p \in FsPaths : DoMkdir(p)
    \/ \E p \in FsPaths : DoMkdirAll(p)

SpecMake == InitFs /\ [][MakeNext]_vars

\* the strings NormalizePath is called with: the generated paths, rooted and
\* relative, and some with "." segments
NormalizeInputs == AllPaths \cup {".", "./a", "a/.", "/.", "/a/./b", "./.."}

\* NormalizePath(p); last.rel holds what it returned
DoNormalizePath(p) ==
    /\ last' = [Call("NormalizePath", p, "nil") EXCEPT !.rel = NormalizePath(p)]
    /\ UNCHANGED <<mounts, backend, handle, writes, locks, session>>

\* NormalizePath called with what the call before it returned
DoNormalizeAgain ==
    /\ last.op = "NormalizePath"
    /\ last' = [Call("NormalizePath", last.rel, "nil")
                   EXCEPT !.rel = NormalizePath(last.rel)]
    /\ UNCHANGED <<mounts, backend, handle, writes, locks, session>>

NormalizeNext ==
    \/ \E p \in NormalizeInputs : DoNormalizePath(p)
    \/ DoNormalizeAgain

\* NormalizePath on its own, its result fed back to it
SpecNormalize == Init /\ [][NormalizeNext]_vars

----------------------------------------------------------------------------
(* The per-user filesystems of a FsContext and LoadFS.                     *)

\* strings.Contains(s, c) for a string c of one byte
Contains(s, c) == \E i \in 1..Len(s) : CharAt(s, i) = c

\* FilePerm.IsRead and FilePerm.IsWrite
IsRead(p) == Contains(p, "r")
IsWrite(p) == IsRead(p) /\ Contains(p, "w")

\* a permission that makes every pool writable
PermAll(pool, userName) == "rw"

\* the permission NewContext uses for a user on a pool: the entry of the
\* user in Permissions, DefaultPerm when there is none
PermOf(pool, userName) ==
    IF userName \in DOMAIN pool.Permissions THEN pool.Permissions[userName]
    ELSE pool.DefaultPerm

\* the MemMapFs NewContext makes for a user, /README.txt written with
\* os.ModePerm
Welcome(userName) ==
    With(EmptyTree, "/README.txt",
         [kind |-> "file", data |-> "hi," \o userName, mode |-> "-rwxrwxrwx",
          mtime |-> 1])

\* rootFs after the Mount of one pool returned r: the mount is there, held
\* through afero.NewReadOnlyFs when the permission does not write.  A pool
\* is the backend its Path names
PoolMounted(fs, r, path, perm) ==
    [fs EXCEPT !.err = r.err, !.mounts = r.mounts,
               !.readonly = IF IsWrite(perm) THEN @ ELSE @ \cup {path}]

\* the loop of NewContext over the pools, in the order names
RECURSIVE MountPools(_, _, _, _)
MountPools(cfg, userName, names, fs) ==
    IF Len(names) = 0 \/ fs.err # "nil" THEN fs
    ELSE IF ~IsRead(PermOf(cfg.Pools[Head(names)], userName))
    THEN MountPools(cfg, userName, Tail(names), fs)
    ELSE MountPools(cfg, userName, Tail(names),
             PoolMounted(fs,
                 MountInto(fs.mounts, "/" \o Head(names), cfg.Pools[Head(names)].Path),
                 cfg.Pools[Head(names)].Path,
                 PermOf(cfg.Pools[Head(names)], userName)))

\* the MountFs NewContext builds for one user: the default backend is the
\* welcome backend behind afero.NewReadOnlyFs
UserFs(cfg, userName) ==
    MountPools(cfg, userName, SortAsc(DOMAIN cfg.Pools),
               [err |-> "nil", mounts |-> <<>>, readonly |-> {DefaultFs},
                base |-> Welcome(userName)])

\* NewContext: the FsContext, or the error of the first Mount that failed
NewContext(cfg) ==
    IF \E u \in DOMAIN cfg.Users : UserFs(cfg, u).err # "nil"
    THEN [err |-> "EINVAL", ctx |-> NoContext]
    ELSE [err |-> "nil",
          ctx |-> [Config |-> cfg,
                   users |-> [u \in DOMAIN cfg.Users |-> UserFs(cfg, u)]]]

\* the hex digest of sha256 and the key argon2.IDKey derives, as functions
\* of the password that give two passwords two values
Sha256Hex(plain) == "h(" \o plain \o ")"
Argon2Key(plain) == "k(" \o plain \o ")"

\* an encoded argon2id hash of a password: six fields between "$"
Argon2Encoded(plain) == "$argon2id$v=19$m=65536,t=3,p=4$c2FsdA$" \o Argon2Key(plain)

\* verifyArgon2id for hashes of the salt and parameters of Argon2Encoded: a
\* string of another shape is refused, one of this shape is compared
verifyArgon2id(encodedHash, password) == encodedHash = Argon2Encoded(password)

\* a verifyPassword that takes every password
verifyAny(hashedPassword, plainPassword) == TRUE

\* verifyPassword
verifyPassword(hashedPassword, plainPassword) ==
    IF HasPrefix(hashedPassword, "argon2id:")
    THEN verifyArgon2id(TrimPrefix(hashedPassword, "argon2id:"), plainPassword)
    ELSE IF HasPrefix(hashedPassword, "sha256:")
    THEN TrimPrefix(hashedPassword, "sha256:") = Sha256Hex(plainPassword)
    ELSE hashedPassword = plainPassword

\* the fields of a line between blanks
RECURSIVE FieldsFrom(_, _)
FieldsFrom(s, cur) ==
    IF Len(s) = 0 THEN <<cur>>
    ELSE IF CharAt(s, 1) = " " THEN <<cur>> \o FieldsFrom(Tail(s), "")
    ELSE FieldsFrom(Tail(s), cur \o CharAt(s, 1))

\* ssh.ParseAuthorizedKey of a line "type key comment", and the marshalled
\* form of the key it returns: the type and the key
ParseAuthorizedKey(line) ==
    LET f == FieldsFrom(line, "")
    IN  IF Len(f) < 2 \/ f[1] \notin {"ssh-ed25519", "ssh-rsa"}
        THEN [err |-> "EPARSE", key |-> ""]
        ELSE [err |-> "nil", key |-> f[1] \o " " \o f[2]]

\* the loop of LoadFS over the stored keys
RECURSIVE KeyLoop(_, _)
KeyLoop(keys, publicKey) ==
    IF Len(keys) = 0 THEN "ENOAUTH"
    ELSE IF ParseAuthorizedKey(Head(keys)).err # "nil" THEN "ENOAUTH"
    ELSE IF ParseAuthorizedKey(Head(keys)).key = publicKey THEN "nil"
    ELSE KeyLoop(Tail(keys), publicKey)

\* no public key presented
NoKey == "nil"

\* FsContext.LoadFS: the error (ENOPERM is NoPermissionError, ENOAUTH
\* NoAuthorizedError) and the user of the AuthFS returned
LoadFS(username, password, publicKey, guestAccept) ==
    IF username = "guest"
    THEN IF ~guestAccept THEN [err |-> "ENOPERM", User |-> NoAuth]
         ELSE [err |-> "nil", User |-> "guest"]
    ELSE IF password = "" /\ publicKey = NoKey
    THEN [err |-> "ENOPERM", User |-> NoAuth]
    ELSE IF username \notin DOMAIN ctx.Config.Users
    THEN [err |-> "ENOAUTH", User |-> NoAuth]
    ELSE IF password # "" /\ ~verifyPassword(ctx.Config.Users[username].Password, password)
    THEN [err |-> "ENOAUTH", User |-> NoAuth]
    ELSE IF publicKey # NoKey
            /\ KeyLoop(ctx.Config.Users[username].PublicKeys, publicKey) # "nil"
    THEN [err |-> "ENOAUTH", User |-> NoAuth]
    ELSE [err |-> "nil", User |-> username]

\* the characters of nameRegexp, ^[a-zA-Z0-9_]+$
NameChars == "abcdefghijklmnopqrstuvwxyzABCDEFGHIJKLMNOPQRSTUVWXYZ0123456789_"

\* nameRegexp.MatchString
nameRegexp(name) ==
    /\ Len(name) > 0
    /\ \A i \in 1..Len(name) :
           \E k \in 1..Len(NameChars) : CharAt(name, i) = CharAt(NameChars, k)

\* a line of public_keys that ssh.ParseAuthorizedKey refuses
BadKey(user) ==
    \E i \in 1..Len(user.PublicKeys) :
        ParseAuthorizedKey(user.PublicKeys[i]).err # "nil"

\* the entry LoadConfig stores for guest: no password and no keys
GuestUser == [Password |-> "", PublicKeys |-> <<>>]

\* a LoadConfig that leaves the user table as the file has it
UsersAsRead(users) == users

\* the user table LoadConfig returns: the users of the file and guest
WithGuest(users) ==
    [n \in DOMAIN users \cup {"guest"} |->
        IF n = "guest" THEN GuestUser ELSE users[n]]

\* LoadConfig on the decoded file: the error of the first check that fails
\* ("panic" for the assignment of guest into a user table that is nil,
\* which is what the decoder leaves when the file has no users), or the
\* configuration with guest added.  A pool path that is one of the backends
\* is a directory that exists
LoadConfig(result) ==
    IF result.Bind = "" THEN [err |-> "bind is required", cfg |-> <<>>]
    ELSE IF DOMAIN result.Pools = {} THEN [err |-> "pools is required", cfg |-> <<>>]
    ELSE IF "guest" \in DOMAIN result.Users
    THEN [err |-> "guest user is retained", cfg |-> <<>>]
    ELSE IF \E n \in DOMAIN result.Users : ~nameRegexp(n)
    THEN [err |-> "invalid user name", cfg |-> <<>>]
    ELSE IF \E n \in DOMAIN result.Users : BadKey(result.Users[n])
    THEN [err |-> "invalid public key", cfg |-> <<>>]
    ELSE IF result.nilUsers THEN [err |-> "panic", cfg |-> <<>>]
    ELSE IF \E n \in DOMAIN result.Pools : ~nameRegexp(n)
    THEN [err |-> "invalid pool name", cfg |-> <<>>]
    ELSE IF \E n \in DOMAIN result.Pools : result.Pools[n].Path \notin BackendIds
    THEN [err |-> "invalid pool path", cfg |-> <<>>]
    ELSE IF \E n \in DOMAIN result.Pools :
              \E u \in DOMAIN result.Pools[n].Permissions :
                  ~nameRegexp(u) \/ result.Pools[n].Permissions[u] = ""
    THEN [err |-> "invalid permission", cfg |-> <<>>]
    ELSE [err |-> "nil",
          cfg |-> [Users |-> WithGuest(result.Users), Pools |-> result.Pools]]

\* the program starts: LoadConfig, and NewContext on what it returned
DoLoadConfig(result) ==
    /\ DOMAIN ctx.users = {}
    /\ \E r \in {LoadConfig(result)} :
           /\ ctx' = IF r.err = "nil" THEN NewContext(r.cfg).ctx ELSE ctx
           /\ last' = Call("LoadConfig", "", r.err)
    /\ UNCHANGED <<mounts, backend, handle, writes, locks, readonly, auth, clock, cookie, job>>

\* the caller of LoadFS holds the filesystem it returned, or none
Loaded(user) ==
    /\ auth' = user
    /\ mounts' = IF user = NoAuth THEN <<>> ELSE ctx.users[user].mounts
    /\ readonly' = IF user = NoAuth THEN {} ELSE ctx.users[user].readonly
    /\ backend' = IF user = NoAuth THEN backend
                  ELSE [backend EXCEPT ![DefaultFs] = ctx.users[user].base]

\* LoadFS(username, password, publicKey, guestAccept); last holds the
\* arguments: the password in path2, the key in rel, guestAccept in count
DoLoadFS(username, password, publicKey, guestAccept) ==
    /\ \E r \in {LoadFS(username, password, publicKey, guestAccept)} :
           /\ Loaded(r.User)
           /\ last' = [Call("LoadFS", username, r.err)
                          EXCEPT !.path2 = password, !.rel = publicKey,
                                 !.count = IF guestAccept THEN 1 ELSE 0]
    /\ UNCHANGED <<handle, writes, locks, ctx, clock, cookie, job>>

----------------------------------------------------------------------------
(* Session tokens: user.timestamp.signature.                               *)

\* the alphabet of base64.RawURLEncoding
B64 == "ABCDEFGHIJKLMNOPQRSTUVWXYZabcdefghijklmnopqrstuvwxyz0123456789-_"

B64Char(v) == CharAt(B64, v + 1)

\* the value of a character of the alphabet, -1 for any other character
B64Index(c) ==
    IF \E k \in 1..Len(B64) : CharAt(B64, k) = c
    THEN (CHOOSE k \in 1..Len(B64) : CharAt(B64, k) = c) - 1
    ELSE -1

\* []byte(s)
Bytes(s) == [i \in 1..Len(s) |-> Ord(CharAt(s, i))]

\* the characters Ord knows
Alphabet == "-./1ADEMRabctux"

\* string(bytes); "?" stands for a byte that is none of the characters of
\* the model
RECURSIVE String(_)
String(bs) ==
    IF Len(bs) = 0 THEN ""
    ELSE (IF \E k \in 1..Len(Alphabet) : Ord(CharAt(Alphabet, k)) = Head(bs)
          THEN CharAt(Alphabet,
                      CHOOSE k \in 1..Len(Alphabet) : Ord(CharAt(Alphabet, k)) = Head(bs))
          ELSE "?")
         \o String(Tail(bs))

\* base64.RawURLEncoding.EncodeToString: three bytes give four characters,
\* one byte left over gives two and two give three, without padding
RECURSIVE EncodeToString(_)
EncodeToString(bs) ==
    IF Len(bs) = 0 THEN ""
    ELSE IF Len(bs) = 1
    THEN B64Char((bs[1] \div 4)) \o B64Char((bs[1] % 4) * 16)
    ELSE IF Len(bs) = 2
    THEN B64Char((bs[1] \div 4)) \o B64Char((bs[1] % 4) * 16 + (bs[2] \div 16))
         \o B64Char((bs[2] % 16) * 4)
    ELSE B64Char((bs[1] \div 4)) \o B64Char((bs[1] % 4) * 16 + (bs[2] \div 16))
         \o B64Char((bs[2] % 16) * 4 + (bs[3] \div 64)) \o B64Char(bs[3] % 64)
         \o EncodeToString(SubSeq(bs, 4, Len(bs)))

\* the decoder skips the line ends of its input
RECURSIVE SkipNewlines(_)
SkipNewlines(s) ==
    IF Len(s) = 0 THEN ""
    ELSE IF CharAt(s, 1) \in {"\n", "\r"} THEN SkipNewlines(Tail(s))
    ELSE CharAt(s, 1) \o SkipNewlines(Tail(s))

\* the bytes of a string of characters of the alphabet whose length is not
\* 1 modulo 4: the bits left over in the last character are dropped
RECURSIVE DecodeChars(_)
DecodeChars(s) ==
    IF Len(s) = 0 THEN <<>>
    ELSE IF Len(s) = 2
    THEN <<(B64Index(CharAt(s, 1)) * 4) + (B64Index(CharAt(s, 2)) \div 16)>>
    ELSE IF Len(s) = 3
    THEN <<(B64Index(CharAt(s, 1)) * 4) + (B64Index(CharAt(s, 2)) \div 16),
           (B64Index(CharAt(s, 2)) % 16) * 16 + (B64Index(CharAt(s, 3)) \div 4)>>
    ELSE <<(B64Index(CharAt(s, 1)) * 4) + (B64Index(CharAt(s, 2)) \div 16),
           (B64Index(CharAt(s, 2)) % 16) * 16 + (B64Index(CharAt(s, 3)) \div 4),
           (B64Index(CharAt(s, 3)) % 4) * 64 + B64Index(CharAt(s, 4))>>
         \o DecodeChars(SubSeq(s, 5, Len(s)))

\* base64.RawURLEncoding.DecodeString
DecodeString(s) ==
    IF \/ \E i \in 1..Len(SkipNewlines(s)) : B64Index(CharAt(SkipNewlines(s), i)) < 0
       \/ Len(SkipNewlines(s)) % 4 = 1
    THEN [err |-> "corrupt", bytes |-> <<>>]
    ELSE [err |-> "nil", bytes |-> DecodeChars(SkipNewlines(s))]

\* the decimal digits
Digits == "0123456789"

\* strconv.FormatInt(n, 10)
RECURSIVE FormatInt(_)
FormatInt(n) ==
    IF n < 0 THEN "-" \o FormatInt(0 - n)
    ELSE IF n < 10 THEN CharAt(Digits, n + 1)
    ELSE FormatInt(n \div 10) \o CharAt(Digits, (n % 10) + 1)

\* the value of a string of decimal digits
RECURSIVE DigitsValue(_)
DigitsValue(s) ==
    IF Len(s) = 0 THEN 0
    ELSE 10 * DigitsValue(SubSeq(s, 1, Len(s) - 1))
         + (CHOOSE k \in 0..9 : CharAt(Digits, k + 1) = CharAt(s, Len(s)))

\* strconv.ParseInt(s, 10, 64) for numbers of up to nine digits: a sign, then
\* digits and nothing else
ParseInt(s) ==
    LET body == IF Len(s) > 0 /\ CharAt(s, 1) \in {"+", "-"} THEN Tail(s) ELSE s
    IN  IF \/ Len(body) = 0
           \/ Len(body) > 9
           \/ \E i \in 1..Len(body) :
                  \A k \in 1..10 : CharAt(Digits, k) # CharAt(body, i)
        THEN [err |-> "syntax", n |-> 0]
        ELSE [err |-> "nil",
              n |-> IF CharAt(s, 1) = "-" THEN 0 - DigitsValue(body)
                    ELSE DigitsValue(body)]

\* strings.Split(s, ".")
RECURSIVE SplitDots(_, _)
SplitDots(s, cur) ==
    IF Len(s) = 0 THEN <<cur>>
    ELSE IF CharAt(s, 1) = "." THEN <<cur>> \o SplitDots(Tail(s), "")
    ELSE SplitDots(Tail(s), cur \o CharAt(s, 1))

\* the written form of a sha256 digest, as a function of the bytes hashed
\* that gives two inputs two values and has no "." in it
RECURSIVE Sha256Sum(_)
Sha256Sum(msg) ==
    IF Len(msg) = 0 THEN ""
    ELSE (IF CharAt(msg, 1) = "." THEN "~" ELSE CharAt(msg, 1))
         \o Sha256Sum(Tail(msg))

\* the signature of data under the key of the context: both are written to
\* the hash, one after the other
Signature(data, key) == "S" \o Sha256Sum(data \o key)

\* the lifetime of a token in seconds, 7 days
TokenLifetime == 604800

\* FsContext.SignToken at the time now
SignToken(user, now) ==
    EncodeToString(Bytes(user)) \o "." \o FormatInt(now) \o "."
        \o Signature(EncodeToString(Bytes(user)) \o "." \o FormatInt(now),
                     ctx.secretKey)

\* a verification that signs what it decoded from the token
SignedDecoded(parts, user, ts) ==
    EncodeToString(user) \o "." \o FormatInt(ts)

\* the data VerifyToken signs again: the first two parts as they came
SignedData(parts, user, ts) == parts[1] \o "." \o parts[2]

\* VerifyToken once the token has three parts
VerifyParts(parts, user, ts, now) ==
    IF user.err # "nil" THEN [err |-> "invalid user encoding", user |-> ""]
    ELSE IF ts.err # "nil" THEN [err |-> "invalid timestamp", user |-> ""]
    ELSE IF now - ts.n > TokenLifetime THEN [err |-> "token expired", user |-> ""]
    ELSE IF parts[3] # Signature(SignedData(parts, user.bytes, ts.n), ctx.secretKey)
    THEN [err |-> "invalid signature", user |-> ""]
    ELSE [err |-> "nil", user |-> String(user.bytes)]

\* FsContext.VerifyToken at the time now
VerifyToken(token, now) ==
    IF Len(SplitDots(token, "")) # 3
    THEN [err |-> "invalid token format", user |-> ""]
    ELSE VerifyParts(SplitDots(token, ""),
                     DecodeString(SplitDots(token, "")[1]),
                     ParseInt(SplitDots(token, "")[2]), now)

\* a login: the server signs a token for the user and the client keeps it
DoSignToken(user) ==
    /\ cookie' = [user |-> user, ts |-> clock, token |-> SignToken(user, clock)]
    /\ last' = [Call("SignToken", user, "nil") EXCEPT !.path2 = SignToken(user, clock)]
    /\ UNCHANGED <<mounts, backend, handle, writes, locks, readonly, ctx, auth, clock, job>>

\* a request that carries a token
DoVerifyToken(token) ==
    /\ \E r \in {VerifyToken(token, clock)} :
           last' = [Call("VerifyToken", r.user, r.err) EXCEPT !.path2 = token]
    /\ UNCHANGED <<mounts, backend, handle, writes, locks, session>>

\* time passes
DoTick(now) ==
    /\ now > clock
    /\ clock' = now
    /\ UNCHANGED <<mounts, backend, handle, last, writes, locks, readonly, ctx,
                   auth, cookie, job>>

----------------------------------------------------------------------------
(* Rename between two backends, one call of a backend at a time.           *)

\* the call that is running and the calls that wait for it to return
Running == job.stack[Len(job.stack)]
Callers == SubSeq(job.stack, 1, Len(job.stack) - 1)

\* a call of copyFile or crossRenameDir that starts; top: crossRename is
\* the caller
Frame(fn, top, src, dst) ==
    [fn |-> fn, top |-> top, src |-> src, dst |-> dst,
     pc |-> IF fn = "copyFile" THEN "create" ELSE "mkdir", names |-> <<>>,
     err |-> "nil"]

\* an order of the steps that removes the source as soon as the destination
\* exists
AfterStepHasty(pc, top) ==
    CASE pc = "create" -> IF top THEN "remove" ELSE "copy"
      [] pc = "copy" -> "stat"
      [] pc = "stat" -> "chmod"
      [] pc = "chmod" -> IF top THEN "remove" ELSE "return"
      [] pc = "mkdir" -> "removeall"
      [] pc = "readdir" -> "next"
      [] pc = "next" -> "removeall"
      [] OTHER -> "return"

\* the step that follows the step pc when pc has returned no error.
\* copyFile: Create, io.Copy, Stat, Chmod, and crossRename removes the
\* source when copyFile has returned; crossRenameDir: MkdirAll, Readdir,
\* the loop, and RemoveAll of the source when the loop is done
AfterStep(pc, top) ==
    CASE pc = "create" -> "copy"
      [] pc = "copy" -> "stat"
      [] pc = "stat" -> "chmod"
      [] pc = "chmod" -> IF top THEN "remove" ELSE "return"
      [] pc = "mkdir" -> "readdir"
      [] pc = "readdir" -> "next"
      [] pc = "next" -> "removeall"
      [] OTHER -> "return"

\* the running call goes on at pc
At(pc) == [job EXCEPT !.stack[Len(job.stack)].pc = pc]

\* the running call returns err: nil to its caller, which goes on, and an
\* error through every caller, each of which returns the error it gets
Returned(err) ==
    IF err = "nil" THEN [job EXCEPT !.stack = Callers]
    ELSE [job EXCEPT !.stack = <<>>, !.err = err]

\* the running call after its step pc has returned err
Go(pc, err) ==
    IF err # "nil" THEN Returned(err)
    ELSE IF AfterStep(pc, Running.top) = "return" THEN Returned("nil")
    ELSE At(AfterStep(pc, Running.top))

\* copyFile gives up after the destination was created
Failing(err) ==
    [job EXCEPT !.stack[Len(job.stack)].pc = "undo",
                !.stack[Len(job.stack)].err = err]

\* the running call is fn and is about to take its step pc
Stepping(fn, pc) ==
    /\ job.on
    /\ Len(job.stack) > 0
    /\ Running.fn = fn
    /\ Running.pc = pc

\* what a step of copyFile or crossRenameDir leaves alone
around == <<mounts, handle, last, writes, locks, readonly, ctx, auth, clock, cookie>>

\* MountFs.Rename(p, p2) up to the call of crossRename, which opens and
\* stats the source; a Rename that is refused or stays in one backend is
\* done at once
DoRenameCall(p, p2) ==
    /\ ~job.on
    /\ writes < MaxWrites
    /\ writes' = writes + 1
    /\ \E old \in {GetMount(p)}, new \in {GetMount(p2)} :
          IF /\ ~hasChildMount(p)
             /\ old.fs # new.fs
             /\ BStat(backend[old.fs], old.rel).err = "nil"
          THEN /\ job' = [on |-> TRUE, old |-> p, new |-> p2,
                          srcFs |-> old.fs, src |-> old.rel,
                          dstFs |-> new.fs, dst |-> new.rel,
                          was |-> backend[old.fs],
                          stack |-> <<Frame(
                              IF BStat(backend[old.fs], old.rel).info.kind = "dir"
                              THEN "crossRenameDir" ELSE "copyFile",
                              TRUE, old.rel, new.rel)>>,
                          err |-> "nil"]
               /\ UNCHANGED <<backend, last>>
          ELSE /\ backend' = Rename(p, p2, "nil").b
               /\ last' = [Call("Rename", p, Rename(p, p2, "nil").err)
                              EXCEPT !.path2 = p2]
               /\ job' = job
    /\ UNCHANGED <<mounts, handle, locks, readonly, ctx, auth, clock, cookie>>

\* copyFile: srcFs.Open(src) and dstFs.Create(dst)
DoCopyCreate ==
    /\ Stepping("copyFile", "create")
    /\ \E from \in {BStat(backend[job.srcFs], Running.src)},
          made \in {Through(job.dstFs, backend[job.dstFs],
                            BCreate(backend[job.dstFs], Running.dst))} :
          IF from.err # "nil"
          THEN /\ job' = Returned(from.err)
               /\ backend' = backend
          ELSE /\ job' = Go("create", made.err)
               /\ backend' = [backend EXCEPT ![job.dstFs] = made.t]
    /\ UNCHANGED around

\* copyFile: io.Copy(dstFile, srcFile).  When it fails the destination
\* holds the bytes written before the failure
DoCopyBytes(fault) ==
    /\ Stepping("copyFile", "copy")
    /\ \E data \in {backend[job.srcFs][BPath(Running.src)].data} :
       \E n \in IF fault = "nil" THEN {Len(data)} ELSE 0..Len(data) :
          backend' = [backend EXCEPT ![job.dstFs][BPath(Running.dst)].data =
                                        SubSeq(data, 1, n)]
    /\ job' = IF fault = "nil" THEN Go("copy", "nil") ELSE Failing(fault)
    /\ UNCHANGED around

\* copyFile: srcFs.Stat(src)
DoCopyStat(fault) ==
    /\ Stepping("copyFile", "stat")
    /\ job' = IF fault = "nil" THEN Go("stat", "nil") ELSE Failing(fault)
    /\ UNCHANGED <<backend, around>>

\* copyFile: dstFs.Chmod(dst, srcInfo.Mode())
DoCopyChmod(fault) ==
    /\ Stepping("copyFile", "chmod")
    /\ backend' =
          IF fault # "nil" THEN backend
          ELSE [backend EXCEPT ![job.dstFs] =
                   ChmodAt(@, BPath(Running.dst),
                           backend[job.srcFs][BPath(Running.src)].mode).t]
    /\ job' = IF fault = "nil" THEN Go("chmod", "nil") ELSE Failing(fault)
    /\ UNCHANGED around

\* copyFile: _ = dstFs.Remove(dst) and the return of the error
DoCopyUndo ==
    /\ Stepping("copyFile", "undo")
    /\ backend' = [backend EXCEPT ![job.dstFs] = BRemove(@, Running.dst).t]
    /\ job' = Returned(Running.err)
    /\ UNCHANGED around

\* crossRename: return srcFs.Remove(src)
DoSourceRemove ==
    /\ Stepping("copyFile", "remove")
    /\ \E r \in {Through(job.srcFs, backend[job.srcFs],
                         BRemove(backend[job.srcFs], Running.src))} :
          /\ backend' = [backend EXCEPT ![job.srcFs] = r.t]
          /\ job' = [job EXCEPT !.stack = <<>>, !.err = r.err]
    /\ UNCHANGED around

\* crossRenameDir: dstFs.MkdirAll(dst, 0o755)
DoDirMkdir ==
    /\ Stepping("crossRenameDir", "mkdir")
    /\ \E r \in {Through(job.dstFs, backend[job.dstFs],
                         BMkdirAll(backend[job.dstFs], Running.dst))} :
          /\ backend' = [backend EXCEPT ![job.dstFs] = r.t]
          /\ job' = Go("mkdir", r.err)
    /\ UNCHANGED around

\* crossRenameDir: srcFs.Open(src) and dir.Readdir(-1)
DoDirRead ==
    /\ Stepping("crossRenameDir", "readdir")
    /\ \E from \in {BStat(backend[job.srcFs], Running.src)} :
          job' = IF from.err # "nil" THEN Returned(from.err)
                 ELSE [Go("readdir", "nil") EXCEPT
                          !.stack[Len(job.stack)].names =
                              SortAsc(BReaddir(backend[job.srcFs], Running.src))]
    /\ UNCHANGED <<backend, around>>

\* crossRenameDir: the loop calls crossRenameDir for a directory and
\* copyFile for a file, and is done when no entry is left
DoDirNext ==
    /\ Stepping("crossRenameDir", "next")
    /\ job' =
          IF Len(Running.names) = 0 THEN Go("next", "nil")
          ELSE [job EXCEPT !.stack =
                   Callers
                   \o <<[Running EXCEPT !.names = Tail(@)]>>
                   \o <<Frame(IF IsDirIn(backend[job.srcFs],
                                         BPath(PathJoin(Running.src,
                                                        Head(Running.names))))
                              THEN "crossRenameDir" ELSE "copyFile",
                              FALSE,
                              PathJoin(Running.src, Head(Running.names)),
                              PathJoin(Running.dst, Head(Running.names)))>>]
    /\ UNCHANGED <<backend, around>>

\* crossRenameDir: return srcFs.RemoveAll(src)
DoDirRemoveAll ==
    /\ Stepping("crossRenameDir", "removeall")
    /\ \E r \in {Through(job.srcFs, backend[job.srcFs],
                         BRemoveAll(backend[job.srcFs], Running.src))} :
          /\ backend' = [backend EXCEPT ![job.srcFs] = r.t]
          /\ job' = Returned(r.err)
    /\ UNCHANGED around

\* MountFs.Rename returns what crossRename returned
DoRenameReturn ==
    /\ job.on
    /\ Len(job.stack) = 0
    /\ last' = [Call("Rename", job.old, job.err) EXCEPT !.path2 = job.new]
    /\ job' = NoJob
    /\ UNCHANGED <<mounts, backend, handle, writes, locks, readonly, ctx, auth,
                   clock, cookie>>

\* a Rename between two backends taken one backend call at a time; a step
\* of a copy may fail
MoveNext ==
    \/ \E prefix \in RenamePrefixes, fs \in FsMounted :
          ~job.on /\ DoMount(prefix, fs, MaxMounts)
    \/ \E p \in RenamePaths, p2 \in RenamePaths : DoRenameCall(p, p2)
    \/ DoCopyCreate
    \/ \E fault \in {"nil", "ECOPY"} : DoCopyBytes(fault)
    \/ \E fault \in {"nil", "ESTAT"} : DoCopyStat(fault)
    \/ \E fault \in {"nil", "ECHMOD"} : DoCopyChmod(fault)
    \/ DoCopyUndo
    \/ DoSourceRemove
    \/ DoDirMkdir
    \/ DoDirRead
    \/ DoDirNext
    \/ DoDirRemoveAll
    \/ DoRenameReturn

SpecMove == InitRename /\ [][MoveNext]_vars

----------------------------------------------------------------------------

(* Concurrent callers: each call is the sequence of its steps on the       *)
(* mount table, the lock and the backends, one step at a time.             *)

\* a call that releases the shared lock after the backend has answered
ForwardingHeld(read) == <<"RLock", read, "Backend", "RUnlock">>

\* a call that is forwarded: GetMount returns, its deferred RUnlock done,
\* before the backend is called
Forwarding(read) == <<"RLock", read, "RUnlock", "Backend">>

\* the steps of a call in the order the code takes them.  Lock, RLock,
\* Unlock and RUnlock are the calls on m.mu (the deferred ones where the
\* function returns); Check and Find read and Append, Sort, Shift and Cut
\* write m.mounts in Mount and Unmount; direct, child, resolve, under, list
\* and virtual are the loops over m.mounts of directDir, hasChildMount,
\* GetMount, getMountsUnder, ListMounts and the third stage of Stat; Backend
\* is the call of the backend
Code(op) ==
    CASE op = "Mount" -> <<"Lock", "Check", "Append", "Sort", "Unlock">>
      [] op = "Unmount" -> <<"Lock", "Find", "Shift", "Cut", "Unlock">>
      [] op = "GetMount" -> <<"RLock", "resolve", "RUnlock">>
      [] op = "getMountsUnder" -> <<"RLock", "under", "RUnlock">>
      [] op = "ListMounts" -> <<"RLock", "list", "RUnlock">>
      [] op = "Create" -> Forwarding("resolve")
      [] op = "Stat" ->
            <<"RLock", "direct", "RUnlock", "RLock", "resolve", "RUnlock",
              "Backend", "RLock", "virtual", "RUnlock">>
      [] op = "Remove" ->
            <<"RLock", "direct", "RUnlock", "child", "RLock", "resolve",
              "RUnlock", "Backend">>

\* the flags of os.OpenFile
O_RDONLY == 0
O_WRONLY == 1
O_RDWR == 2
O_CREATE == 64
O_EXCL == 128
O_TRUNC == 512
O_APPEND == 1024

\* a & b
RECURSIVE BitAnd(_, _)
BitAnd(a, b) ==
    IF a = 0 \/ b = 0 THEN 0
    ELSE (a % 2) * (b % 2) + 2 * BitAnd(a \div 2, b \div 2)

\* a test of the flags that leaves O_APPEND out
WriteFlagsNoAppend(flag) ==
    \/ BitAnd(flag, O_RDWR) # 0
    \/ BitAnd(flag, O_WRONLY) # 0
    \/ BitAnd(flag, O_CREATE) # 0
    \/ BitAnd(flag, O_TRUNC) # 0

\* the test of LockedFs.OpenFile for the exclusive lock
WriteFlags(flag) ==
    \/ BitAnd(flag, O_RDWR) # 0
    \/ BitAnd(flag, O_WRONLY) # 0
    \/ BitAnd(flag, O_CREATE) # 0
    \/ BitAnd(flag, O_APPEND) # 0
    \/ BitAnd(flag, O_TRUNC) # 0

\* the methods of LockedFs that take lfs.mu.Lock() and those that take
\* lfs.mu.RLock(), whatever their arguments
LockedWriters ==
    {"lfs.Mkdir", "lfs.MkdirAll", "lfs.Chown", "lfs.Remove", "lfs.RemoveAll",
     "lfs.Rename", "lfs.Chmod", "lfs.Chtimes"}
LockedReaders == {"lfs.Open", "lfs.Stat", "lfs.Name"}

\* the steps of a method of LockedFs: the lock, the calls of the wrapped
\* filesystem (Enter where the call starts, Leave where it returns) and the
\* deferred unlock.  Create calls MkdirAll and then Create
LockedCode(op, flag) ==
    CASE op = "lfs.Create" -> <<"Lock", "Enter", "Leave", "Enter", "Leave", "Unlock">>
      [] op \in LockedWriters -> <<"Lock", "Enter", "Leave", "Unlock">>
      [] op \in LockedReaders -> <<"RLock", "Enter", "Leave", "RUnlock">>
      [] op = "lfs.OpenFile" ->
            IF WriteFlags(flag) THEN <<"Lock", "Enter", "Leave", "Unlock">>
            ELSE <<"RLock", "Enter", "Leave", "RUnlock">>

\* the index of the last "/" of a path, 0 when it has none
RECURSIVE LastSlash(_)
LastSlash(p) ==
    IF Len(p) = 0 THEN 0
    ELSE IF CharAt(p, Len(p)) = "/" THEN Len(p)
    ELSE LastSlash(SubSeq(p, 1, Len(p) - 1))

\* filepath.Dir
Dir(p) == Clean(SubSeq(p, 1, LastSlash(p)))

\* the steps of the call a goroutine is in
Steps(th) ==
    IF th.op \in {"lfs.Create", "lfs.OpenFile"} \cup LockedWriters \cup LockedReaders
    THEN LockedCode(th.op, th.flag)
    ELSE Code(th.op)

\* the step a goroutine is about to take, "return" after the last one
Instr(th) ==
    IF th.op = "none" THEN "none"
    ELSE IF th.pc > Len(Steps(th)) THEN "return"
    ELSE Steps(th)[th.pc]

\* the place after the step th has just taken: the next one, or the return
\* of the call where the code returns early (Mount and Unmount return
\* through their deferred Unlock)
After(th) ==
    IF th.op \in {"Mount", "Unmount"} /\ th.pc = 2 /\ th.err # "nil"
    THEN Len(Code(th.op))
    ELSE IF th.op = "lfs.Create" /\ th.pc = 1 /\ Dir(th.path) \in {".", "/"}
    THEN 4
    ELSE IF th.op = "lfs.Create" /\ th.pc = 3 /\ th.err # "nil"
    THEN 6
    ELSE IF th.op \in {"Stat", "Remove"} /\ th.pc = 3 /\ th.direct
    THEN Len(Code(th.op)) + 1
    ELSE IF th.op = "Remove" /\ th.pc = 4 /\ th.child
    THEN Len(Code(th.op)) + 1
    ELSE IF th.op = "Stat" /\ th.pc = 7 /\ th.err # "ENOENT"
    THEN Len(Code(th.op)) + 1
    ELSE th.pc + 1

\* the goroutine t after a step that left it as th
Stepped(t, th) == [run EXCEPT ![t] = [th EXCEPT !.pc = After(th)]]

\* a writer is between two of its writes to m.mounts
MidUpdate == \E u \in Procs : Instr(run[u]) \in {"Sort", "Cut"}

\* the goroutine t enters the call op(path, arg)
DoCall(t, op, path, arg) ==
    /\ run[t] = Idle
    /\ op = "Mount" => Len(mounts) < MaxMounts
    /\ run' = [run EXCEPT ![t] = [Idle EXCEPT !.op = op, !.path = path,
                                              !.arg = arg, !.pc = 1]]
    /\ UNCHANGED <<mounts, backend, handle, last, writes, mu, session>>

\* m.mu.Lock(): waits until nobody holds the lock
DoLock(t) ==
    /\ Instr(run[t]) = "Lock"
    /\ mu = Unlocked
    /\ mu' = [mu EXCEPT !.w = t]
    /\ run' = Stepped(t, run[t])
    /\ UNCHANGED <<mounts, backend, handle, last, writes, session>>

\* m.mu.Unlock()
DoUnlock(t) ==
    /\ Instr(run[t]) = "Unlock"
    /\ mu' = [mu EXCEPT !.w = 0]
    /\ run' = Stepped(t, run[t])
    /\ UNCHANGED <<mounts, backend, handle, last, writes, session>>

\* m.mu.RLock(): waits while a writer holds the lock
DoRLock(t) ==
    /\ Instr(run[t]) = "RLock"
    /\ mu.w = 0
    /\ mu' = [mu EXCEPT !.r = @ \cup {t}]
    /\ run' = Stepped(t, run[t])
    /\ UNCHANGED <<mounts, backend, handle, last, writes, session>>

\* m.mu.RUnlock()
DoRUnlock(t) ==
    /\ Instr(run[t]) = "RUnlock"
    /\ mu' = [mu EXCEPT !.r = @ \ {t}]
    /\ run' = Stepped(t, run[t])
    /\ UNCHANGED <<mounts, backend, handle, last, writes, session>>

\* what a loop over m.mounts leaves in the goroutine th
ReadTable(th) ==
    LET i == Instr(th)
        seen == [th EXCEPT !.torn = @ \/ MidUpdate]
    IN  IF i = "direct"
        THEN [seen EXCEPT !.direct = directDir(th.path).ok,
                          !.err = IF directDir(th.path).ok /\ th.op = "Remove"
                                  THEN "EPERM" ELSE "nil"]
        ELSE IF i = "child"
        THEN [seen EXCEPT !.child = hasChildMount(th.path),
                          !.err = IF hasChildMount(th.path) THEN "EMOUNT" ELSE "nil"]
        ELSE IF i = "resolve"
        THEN [seen EXCEPT !.fs = GetMount(th.path).fs, !.rel = GetMount(th.path).rel]
        ELSE IF i = "virtual"
        THEN [seen EXCEPT !.err = IF IsVirtualDir(NormalizePath(th.path))
                                  THEN "nil" ELSE "ENOENT"]
        ELSE seen

\* one of the loops over m.mounts that only read it
DoRead(t) ==
    /\ Instr(run[t]) \in {"direct", "child", "resolve", "under", "list", "virtual"}
    /\ run' = Stepped(t, ReadTable(run[t]))
    /\ UNCHANGED <<mounts, backend, handle, last, writes, mu, session>>

\* Mount and Unmount look at the table before they change it
DoCheck(t) ==
    /\ Instr(run[t]) \in {"Check", "Find"}
    /\ run' = Stepped(t, [run[t] EXCEPT !.err =
                 IF run[t].op = "Mount" THEN Mount(run[t].path, run[t].arg).err
                 ELSE Unmount(run[t].path).err])
    /\ UNCHANGED <<mounts, backend, handle, last, writes, mu, session>>

\* Mount: m.mounts = append(m.mounts, ...)
DoAppend(t) ==
    /\ Instr(run[t]) = "Append"
    /\ mounts' = Append(mounts, [Prefix |-> MountPrefix(run[t].path),
                                 Fs |-> run[t].arg])
    /\ run' = Stepped(t, run[t])
    /\ UNCHANGED <<backend, handle, last, writes, mu, session>>

\* Mount: slices.SortFunc(m.mounts, ...)
DoSort(t) ==
    /\ Instr(run[t]) = "Sort"
    /\ mounts' = SortDesc(mounts)
    /\ run' = Stepped(t, run[t])
    /\ UNCHANGED <<backend, handle, last, writes, mu, session>>

\* the table after append(m.mounts[:i], m.mounts[i+1:]...) has moved the
\* mounts behind the one at i down by one, before its result is assigned:
\* the table still has its old length, the last mount is there twice
Shifted(ms, i) ==
    [j \in 1..Len(ms) |-> IF j < i \/ j = Len(ms) THEN ms[j] ELSE ms[j + 1]]

\* Unmount: the mounts behind the one found are moved down
DoShift(t) ==
    /\ Instr(run[t]) = "Shift"
    /\ mounts' = Shifted(mounts,
                     First({i \in 1..Len(mounts) :
                               mounts[i].Prefix = MountPrefix(run[t].path)}))
    /\ run' = Stepped(t, run[t])
    /\ UNCHANGED <<backend, handle, last, writes, mu, session>>

\* Unmount: the shorter table is assigned to m.mounts
DoCut(t) ==
    /\ Instr(run[t]) = "Cut"
    /\ mounts' = SubSeq(mounts, 1, Len(mounts) - 1)
    /\ run' = Stepped(t, run[t])
    /\ UNCHANGED <<backend, handle, last, writes, mu, session>>

\* what the backend the call resolved to answers, and the backends after
Answer(th) ==
    IF th.op = "Stat" THEN Refuse(BStat(backend[th.fs], th.rel).err)
    ELSE IF th.op = "Create" THEN Forward(th.fs, BCreate(backend[th.fs], th.rel))
    ELSE Forward(th.fs, BRemove(backend[th.fs], th.rel))

\* the call of the backend
DoBackend(t) ==
    /\ Instr(run[t]) = "Backend"
    /\ run[t].op # "Stat" => writes < MaxWrites /\ writes' = writes + 1
    /\ run[t].op = "Stat" => writes' = writes
    /\ backend' = Answer(run[t]).b
    /\ run' = Stepped(t, [run[t] EXCEPT !.err = Answer(run[t]).err])
    /\ UNCHANGED <<mounts, handle, last, mu, session>>

\* the call returns what run[t] holds, and the goroutine is free again
DoReturn(t) ==
    /\ Instr(run[t]) = "return"
    /\ run' = [run EXCEPT ![t] = Idle]
    /\ UNCHANGED <<mounts, backend, handle, last, writes, mu, session>>

\* afero.Fs.OpenFile
OpenFileAt(t, q, up, flag) ==
    IF q \in DOMAIN t
    THEN IF BitAnd(flag, O_CREATE) # 0 /\ BitAnd(flag, O_EXCL) # 0
         THEN [err |-> "EEXIST", t |-> t]
         ELSE IF t[q].kind = "file" /\ BitAnd(flag, O_TRUNC) # 0
         THEN [err |-> "nil", t |-> With(t, q, [t[q] EXCEPT !.data = ""])]
         ELSE [err |-> "nil", t |-> t]
    ELSE IF BitAnd(flag, O_CREATE) # 0 THEN CreateAt(t, q, up)
    ELSE [err |-> "ENOENT", t |-> t]

BOpenFile(t, rel, flag) == OpenFileAt(t, BPath(rel), Parent(BPath(rel)), flag)

\* what the wrapped filesystem, which holds the tree t, answers to the call
\* the goroutine th is in (Chown changes nothing the tree holds)
Wrapped(th, t) ==
    CASE th.op = "lfs.Create" /\ th.pc = 3 -> BMkdirAll(t, Dir(th.path))
      [] th.op = "lfs.Create" /\ th.pc # 3 -> BCreate(t, th.path)
      [] th.op = "lfs.Mkdir" -> BMkdir(t, th.path)
      [] th.op = "lfs.MkdirAll" -> BMkdirAll(t, th.path)
      [] th.op = "lfs.Remove" -> BRemove(t, th.path)
      [] th.op = "lfs.RemoveAll" -> BRemoveAll(t, th.path)
      [] th.op = "lfs.Rename" -> BRename(t, th.path, th.arg)
      [] th.op = "lfs.Chmod" -> BChmod(t, th.path, th.arg)
      [] th.op = "lfs.Chtimes" -> BChtimes(t, th.path, th.flag)
      [] th.op \in {"lfs.Chown", "lfs.Open", "lfs.Stat"} ->
            [err |-> BStat(t, th.path).err, t |-> t]
      [] th.op = "lfs.Name" -> [err |-> "nil", t |-> t]
      [] th.op = "lfs.OpenFile" -> BOpenFile(t, th.path, th.flag)

\* the goroutine t enters the method op of the LockedFs; flag is the flag
\* of OpenFile and the time of Chtimes
DoLockedCall(t, op, path, arg, flag) ==
    /\ run[t] = Idle
    /\ run' = [run EXCEPT ![t] = [Idle EXCEPT !.op = op, !.path = path,
                                              !.arg = arg, !.flag = flag, !.pc = 1]]
    /\ UNCHANGED <<mounts, backend, handle, last, writes, mu, session>>

\* the call of the wrapped filesystem starts
DoEnter(t) ==
    /\ Instr(run[t]) = "Enter"
    /\ run' = Stepped(t, run[t])
    /\ UNCHANGED <<mounts, backend, handle, last, writes, mu, session>>

\* the call of the wrapped filesystem returns
DoLeave(t) ==
    /\ Instr(run[t]) = "Leave"
    /\ \E r \in {Wrapped(run[t], backend[DefaultFs])} :
           /\ backend' = [backend EXCEPT ![DefaultFs] = r.t]
           /\ run' = Stepped(t, [run[t] EXCEPT !.err = r.err])
    /\ UNCHANGED <<mounts, handle, last, writes, mu, session>>

\* the calls of the goroutines and their arguments
LockCalls ==
    {<<"Mount", "/a/b", "A">>, <<"Mount", "/a", "B">>, <<"Unmount", "/a/b", "">>,
     <<"GetMount", "/a/b", "">>, <<"getMountsUnder", "/", "">>,
     <<"ListMounts", "", "">>, <<"Create", "/a/b", "">>, <<"Stat", "/a", "">>,
     <<"Remove", "/a", "">>}

LockNext ==
    \E t \in Procs :
        \/ \E c \in LockCalls : DoCall(t, c[1], c[2], c[3])
        \/ DoLock(t)
        \/ DoUnlock(t)
        \/ DoRLock(t)
        \/ DoRUnlock(t)
        \/ DoRead(t)
        \/ DoCheck(t)
        \/ DoAppend(t)
        \/ DoSort(t)
        \/ DoShift(t)
        \/ DoCut(t)
        \/ DoBackend(t)
        \/ DoReturn(t)

\* a MountFs over a default backend that holds the directory /a
InitLock ==
    /\ mounts = <<>>
    /\ backend = [b \in BackendIds |->
                     IF b = DefaultFs THEN Tree({}, {"/a"}) ELSE EmptyTree]
    /\ handle = NoHandle
    /\ last = NoCall
    /\ writes = 0
    /\ Quiet
    /\ NoSession

\* two goroutines on one MountFs
SpecLock == InitLock /\ [][LockNext]_vars

\* the permissions of the configurations
Perms == {"", "r", "w", "rw"}

\* the Permissions of a pool: no entry, or one for the user u1
Overrides == {[n \in {} |-> ""]} \cup {[n \in {"u1"} |-> p] : p \in Perms \ {""}}

\* the users of the configurations: LoadConfig adds guest
ConfigUsers ==
    [n \in {"u1", "guest"} |->
        IF n = "u1" THEN [Password |-> "pw", PublicKeys |-> <<>>]
        ELSE [Password |-> "", PublicKeys |-> <<>>]]

\* configurations of two pools, a on the directory A and b on B
UserConfigs ==
    {[Users |-> ConfigUsers,
      Pools |-> [n \in {"a", "b"} |->
                    IF n = "a"
                    THEN [Path |-> "A", Permissions |-> o, DefaultPerm |-> d]
                    ELSE [Path |-> "B", Permissions |-> [k \in {} |-> ""],
                          DefaultPerm |-> e]]] :
        o \in Overrides, d \in Perms, e \in {"r", "rw"}}

\* the state after NewContext; the directory A holds a file and a directory
\* with a file, B is empty, and no caller holds a filesystem yet
InitUser ==
    /\ ctx \in {NewContext(cfg).ctx : cfg \in UserConfigs}
    /\ mounts = <<>>
    /\ backend = [b \in BackendIds |->
                     IF b = "A" THEN Tree({"/a", "/b/a"}, {"/b"}) ELSE EmptyTree]
    /\ handle = NoHandle
    /\ last = NoCall
    /\ writes = 0
    /\ Quiet
    /\ readonly = {}
    /\ auth = NoAuth
    /\ NoToken
    /\ job = NoJob

\* the paths the user calls the operations with
UserPaths == {"/README.txt", "/a", "/a/a", "/a/b", "/b/a"}

\* one login, then the operations that write
UserNext ==
    \/ /\ auth = NoAuth
       /\ \E username \in {"u1", "guest"}, password \in {"", "pw"} :
             DoLoadFS(username, password, NoKey, TRUE)
    \/ /\ auth # NoAuth
       /\ \E p \in UserPaths :
             \/ DoCreate(p)
             \/ DoMkdir(p)
             \/ DoMkdirAll(p)
             \/ DoRemove(p)
             \/ DoRemoveAll(p)
             \/ DoChmod(p, FileMode)
             \/ \E p2 \in UserPaths : DoRename(p, p2, "nil")

SpecUser == InitUser /\ [][UserNext]_vars

\* the stored passwords of u1: none, a plain one, a sha256 and an argon2id
\* hash of "pw", and an argon2id hash of five fields
StoredPasswords ==
    {"", "pw", "sha256:" \o Sha256Hex("pw"), "argon2id:" \o Argon2Encoded("pw"),
     "argon2id:$argon2id$v=19$m=65536,t=3,p=4$" \o Argon2Key("pw")}

\* the stored key lists of u1; the last one starts with a line that does
\* not parse
StoredKeys ==
    {<<>>, <<"ssh-ed25519 K1 me">>, <<"ssh-rsa K2", "ssh-ed25519 K1">>,
     <<"bogus", "ssh-ed25519 K1">>}

\* configurations of one pool and the users u1 and guest
AuthConfigs ==
    {[Users |-> [n \in {"u1", "guest"} |->
                    IF n = "u1" THEN [Password |-> pw, PublicKeys |-> keys]
                    ELSE [Password |-> "", PublicKeys |-> <<>>]],
      Pools |-> [n \in {"a"} |->
                    [Path |-> "A", Permissions |-> [k \in {} |-> ""],
                     DefaultPerm |-> "r"]]] :
        pw \in StoredPasswords, keys \in StoredKeys}

\* the state after NewContext
InitAuth ==
    /\ ctx \in {NewContext(cfg).ctx : cfg \in AuthConfigs}
    /\ mounts = <<>>
    /\ backend = [b \in BackendIds |-> EmptyTree]
    /\ handle = NoHandle
    /\ last = NoCall
    /\ writes = 0
    /\ Quiet
    /\ readonly = {}
    /\ auth = NoAuth
    /\ NoToken
    /\ job = NoJob

\* the names, passwords and keys LoadFS is called with
AuthNames == {"u1", "u2", "guest"}
AuthPasswords == {"", "pw", "no"}
AuthKeys == {NoKey, "ssh-ed25519 K1", "ssh-ed25519 K3"}

AuthNext ==
    \E username \in AuthNames, password \in AuthPasswords, publicKey \in AuthKeys,
       guestAccept \in BOOLEAN :
        DoLoadFS(username, password, publicKey, guestAccept)

\* callers that log in, one after the other
SpecAuth == InitAuth /\ [][AuthNext]_vars

\* the user tables of the files: none, an empty one, u1 with a password, u1
\* with a key, a name the pattern refuses, a key that does not parse, and a
\* file that declares guest
RawUsers ==
    {<<>>,
     [n \in {"u1"} |-> [Password |-> "pw", PublicKeys |-> <<>>]],
     [n \in {"u1"} |-> [Password |-> "", PublicKeys |-> <<"ssh-ed25519 K1 me">>]],
     [n \in {"u-1"} |-> [Password |-> "pw", PublicKeys |-> <<>>]],
     [n \in {"u1"} |-> [Password |-> "", PublicKeys |-> <<"bogus">>]],
     [n \in {"u1", "guest"} |-> [Password |-> "pw", PublicKeys |-> <<>>]]}

\* the pool tables of the files: none, pool a on the directory A with or
\* without an entry for guest, a pool without a path
RawPools ==
    {<<>>}
    \cup {[n \in {"a"} |-> [Path |-> "A", Permissions |-> o, DefaultPerm |-> d]] :
             o \in {<<>>, [k \in {"guest"} |-> "rw"], [k \in {"guest"} |-> "-"],
                    [k \in {"guest"} |-> ""]},
             d \in {"", "r", "rw"}}
    \cup {[n \in {"a"} |-> [Path |-> "", Permissions |-> <<>>, DefaultPerm |-> "r"]]}

\* the decoded configuration files
RawConfigs ==
    {[Bind |-> b, Pools |-> p, Users |-> u, nilUsers |-> FALSE] :
        b \in {"", ":8080"}, p \in RawPools, u \in RawUsers}
    \cup {[Bind |-> ":8080", Pools |-> p, Users |-> <<>>, nilUsers |-> TRUE] :
             p \in RawPools}

\* the program before it has read its configuration
InitGuest ==
    /\ ctx = NoContext
    /\ mounts = <<>>
    /\ backend = [b \in BackendIds |-> EmptyTree]
    /\ handle = NoHandle
    /\ last = NoCall
    /\ writes = 0
    /\ Quiet
    /\ readonly = {}
    /\ auth = NoAuth
    /\ NoToken
    /\ job = NoJob

\* the start of the program, then callers that log in
GuestNext ==
    \/ \E result \in RawConfigs : DoLoadConfig(result)
    \/ /\ DOMAIN ctx.users # {}
       /\ \E username \in {"u1", "guest"}, password \in {"", "pw"},
             publicKey \in {NoKey, "ssh-ed25519 K1"}, guestAccept \in BOOLEAN :
             DoLoadFS(username, password, publicKey, guestAccept)

SpecGuest == InitGuest /\ [][GuestNext]_vars

\* the root of a mounted backend: its mode and its time, or a backend whose
\* directory is gone
EntryRoots ==
    {[q \in {"/"} |-> [DirEntry EXCEPT !.mode = m, !.mtime = t]] :
        m \in {DirMode, "drwx------"}, t \in {1, 2}}
    \cup {<<>>}

\* A is mounted on /a, over a directory of the default backend, and B on
\* /b/a
InitEntry ==
    /\ mounts = MountInto(MountInto(<<>>, "/a", "A").mounts, "/b/a", "B").mounts
    /\ backend \in {[b \in BackendIds |->
                        IF b = DefaultFs THEN Tree({"/c"}, {"/a"})
                        ELSE IF b = "A" THEN r ELSE EmptyTree] :
                    r \in EntryRoots}
    /\ handle = NoHandle
    /\ last = NoCall
    /\ writes = 0
    /\ Quiet
    /\ NoSession

\* listings are opened and their entries asked, while the roots of the
\* backends change and the mount is taken away
EntryNext ==
    \/ \E p \in {"/", "/b"} : DoOpen(p)
    \/ \E i \in 1..3 : DoInfo(i)
    \/ \E p \in {"/a", "/b", "/b/a", "/c"} : DoStat(p, "nil")
    \/ \E p \in {"/a", "/c"} : DoChmod(p, "-rwxr-x---")
    \/ \E p \in {"/a", "/c"} : DoChtimes(p, 3)
    \/ DoUnmount("/a")
    \/ DoClose

SpecEntry == InitEntry /\ [][EntryNext]_vars

\* the calls of the goroutines on a LockedFs: every method, and OpenFile
\* with each of the flags alone, two of them together and flags that do
\* not write
LockedCalls ==
    {<<"lfs.Create", "/a/b", "", 0>>, <<"lfs.Mkdir", "/a", "", 0>>,
     <<"lfs.MkdirAll", "/a", "", 0>>, <<"lfs.Chown", "/a", "", 0>>,
     <<"lfs.Remove", "/a/b", "", 0>>, <<"lfs.RemoveAll", "/a", "", 0>>,
     <<"lfs.Rename", "/a/b", "/b", 0>>, <<"lfs.Chmod", "/b", "-rw-r--r--", 0>>,
     <<"lfs.Chtimes", "/b", "", 1>>, <<"lfs.Open", "/a", "", 0>>,
     <<"lfs.Stat", "/b", "", 0>>, <<"lfs.Name", "", "", 0>>}
    \cup {<<"lfs.OpenFile", "/b", "", flag>> :
             flag \in {O_RDONLY, O_WRONLY, O_RDWR, O_CREATE, O_APPEND, O_TRUNC,
                       O_EXCL, O_RDWR + O_CREATE, O_WRONLY + O_APPEND}}

LockedNext ==
    \E t \in Procs :
        \/ \E c \in LockedCalls : DoLockedCall(t, c[1], c[2], c[3], c[4])
        \/ DoLock(t)
        \/ DoUnlock(t)
        \/ DoRLock(t)
        \/ DoRUnlock(t)
        \/ DoEnter(t)
        \/ DoLeave(t)
        \/ DoReturn(t)

\* a LockedFs over a filesystem that holds the file /b
InitLocked ==
    /\ mounts = <<>>
    /\ backend = [b \in BackendIds |->
                     IF b = DefaultFs THEN Tree({"/b"}, {}) ELSE EmptyTree]
    /\ handle = NoHandle
    /\ last = NoCall
    /\ writes = 0
    /\ Quiet
    /\ NoSession

\* two goroutines on one LockedFs
SpecLocked == InitLocked /\ [][LockedNext]_vars

\* the FsContext with the key rand.Read gave NewContext
Keyed(c, key) == [Config |-> c.Config, users |-> c.users, secretKey |-> key]

\* the keys of the contexts, the users tokens are signed for and the
\* instants of the clock: a week and a second lie between the first and the
\* last
SecretKeys == {"k1", "k2"}
TokenUsers == {"", "a", "u1", "a.b"}
ClockTimes == {7, 8, 7 + TokenLifetime, 8 + TokenLifetime}

\* what a client can make of a token of three parts without the key: parts
\* added and taken away, the user part of another user, another encoding
\* of the same user and one with a line end, other spellings of the time
\* and other times, a signature cut short, one made with another key and
\* one made over the decoded user
AlteredParts(p) ==
    {p[1] \o "." \o p[2] \o "." \o p[3] \o "added",
     p[1] \o "." \o p[2] \o "." \o p[3] \o ".x",
     p[1] \o "." \o p[2],
     EncodeToString(Bytes("ab")) \o "." \o p[2] \o "." \o p[3],
     p[1] \o "\n" \o "." \o p[2] \o "." \o p[3],
     p[1] \o "=" \o "." \o p[2] \o "." \o p[3],
     p[1] \o "." \o "0" \o p[2] \o "." \o p[3],
     p[1] \o "." \o "+" \o p[2] \o "." \o p[3],
     p[1] \o "." \o p[2] \o "0" \o "." \o p[3],
     p[1] \o "." \o "x" \o "." \o p[3],
     p[1] \o "." \o p[2] \o "." \o SubSeq(p[3], 1, Len(p[3]) - 1),
     p[1] \o "." \o p[2] \o "." \o Signature(p[1] \o "." \o p[2], "k3"),
     p[1] \o "." \o p[2] \o "." \o ""}
    \cup (IF Len(p[1]) = 0 THEN {}
          ELSE {SubSeq(p[1], 1, Len(p[1]) - 1)
                    \o B64Char((B64Index(CharAt(p[1], Len(p[1]))) + 1) % 64)
                    \o "." \o p[2] \o "." \o p[3]})

Altered(token) ==
    IF Len(SplitDots(token, "")) # 3 THEN {}
    ELSE AlteredParts(SplitDots(token, ""))

\* the tokens a request carries: the one the client holds, what can be made
\* of it, and strings that never were tokens
Presented == {cookie.token} \cup Altered(cookie.token) \cup {"invalid.token.parts", "a.b"}

\* a context, at a time after the start of the clock
InitToken ==
    /\ ctx \in {Keyed(NewContext(cfg).ctx, key) :
                   cfg \in {c \in AuthConfigs : c.Users["u1"].Password = "pw"
                                                /\ c.Users["u1"].PublicKeys = <<>>},
                   key \in SecretKeys}
    /\ mounts = <<>>
    /\ backend = [b \in BackendIds |-> EmptyTree]
    /\ handle = NoHandle
    /\ last = NoCall
    /\ writes = 0
    /\ Quiet
    /\ readonly = {}
    /\ auth = NoAuth
    /\ clock = 7
    /\ cookie = NoCookie
    /\ job = NoJob

TokenNext ==
    \/ \E user \in TokenUsers : DoSignToken(user)
    \/ \E token \in Presented : DoVerifyToken(token)
    \/ \E now \in ClockTimes : DoTick(now)

SpecToken == InitToken /\ [][TokenNext]_vars

----------------------------------------------------------------------------
(* Claims about the mount table.                                           *)

\* the mounted prefixes a normalised path is equal to or lies below
Candidates(path) ==
    {q \in Prefixes : path = q \/ HasPrefix(path, q \o "/")}

\* the backend mounted at a prefix of the table
FsAt(q) == (CHOOSE m \in {mounts[i] : i \in 1..Len(mounts)} : m.Prefix = q).Fs

\* a resolution (fs, rel) of p is the longest-prefix resolution
ResolvesLongest(p, fs, rel) ==
    LET path == NormalizePath(p)
        C == Candidates(path)
    IN  IF path = "/" \/ C = {}
        THEN fs = DefaultFs /\ rel = path
        ELSE \E q \in C :
                /\ \A r \in C : Len(r) <= Len(q)
                /\ fs = FsAt(q)
                /\ q \o rel = path

\* C1: in every mount table Mount and Unmount can build, GetMount resolves
\* every path to the backend of the longest mounted prefix the normalised
\* path is equal to or lies below, with that prefix stripped, and to the
\* default backend with the normalised path when there is none or the path
\* is the root.
C1_LongestPrefix ==
    /\ \A p \in AllPaths :
          LET got == GetMount(p) IN ResolvesLongest(p, got.fs, got.rel)
    /\ last.op = "GetMount" => ResolvesLongest(last.path, last.fs, last.rel)

\* C1 witness: GetMount has resolved a path that lies in two nested mounts
\* to the longer one.
C1_Witness ==
    /\ last.op = "GetMount"
    /\ Cardinality(Candidates(NormalizePath(last.path))) >= 2
    /\ \E q \in Candidates(NormalizePath(last.path)) :
          /\ \A r \in Candidates(NormalizePath(last.path)) : Len(r) <= Len(q)
          /\ last.fs = FsAt(q)
          /\ \E r \in Candidates(NormalizePath(last.path)) : FsAt(r) # FsAt(q)

\* C2: the relative path GetMount returns always begins with "/"; the root
\* of a mount resolves to "/" and never to the empty string.
C2_RelativeStartsWithSlash ==
    /\ \A p \in AllPaths : HasPrefix(GetMount(p).rel, "/")
    /\ last.op = "GetMount" => HasPrefix(last.rel, "/")

\* C8: hasChildMount(dir) is true exactly when getMountsUnder(dir) is not
\* empty, for every directory, the root included.
C8_ChildMountIffMountsUnder ==
    \A dir \in AllPaths : hasChildMount(dir) <=> Len(getMountsUnder(dir)) > 0

----------------------------------------------------------------------------
(* Claims about Stat and the merged listing, under Spec.                   *)

\* the segments of a normalised path; the root has none below the leading
\* empty one
PathSegs(q) == IF q = "/" THEN <<"">> ELSE Split(q)

\* prefix q lies strictly below directory d: the segments of d are a proper
\* front of the segments of q
StrictlyUnder(q, d) ==
    /\ Len(PathSegs(d)) < Len(Split(q))
    /\ SubSeq(Split(q), 1, Len(PathSegs(d))) = PathSegs(d)

\* the first segment of q below directory d
NextSegment(q, d) == Split(q)[Len(PathSegs(d)) + 1]

\* what the backend a path resolves to answers for the resolved path
Lookup(p, fault) ==
    IF fault # "nil" THEN [err |-> fault, info |-> DirEntry]
    ELSE BStat(backend[GetMount(p).fs], GetMount(p).rel)

\* r is the answer the three ordered stages give for path p
StagedAs(p, fault, r) ==
    LET n == NormalizePath(p)
        under == Lookup(p, fault)
    IN  IF n \in Prefixes
        THEN r.err = "nil" /\ r.info.type = "mount" /\ r.info.isDir
             /\ r.info.name = Base(n)
        ELSE IF under.err = "nil"
        THEN r.err = "nil" /\ r.info.type = "backend"
             /\ r.info.isDir = (under.info.kind = "dir")
             /\ r.info.mode = under.info.mode
        ELSE IF under.err # "ENOENT" THEN r.err = under.err
        ELSE IF \E q \in Prefixes : StrictlyUnder(q, n)
        THEN r.err = "nil" /\ r.info.type = "virtual" /\ r.info.isDir
             /\ r.info.name = Base(n)
        ELSE r.err = "ENOENT"

\* C3: Stat answers in three ordered stages: a mount prefix is a synthetic
\* directory whatever the backend holds; otherwise what the backend holds at
\* the resolved path is returned; a backend error other than not-found is
\* returned as it is; on not-found a strict ancestor of a mount prefix is a
\* virtual directory and any other path is not found.
C3_StatStages ==
    /\ \A p \in FsPaths, fault \in Faults : StagedAs(p, fault, Stat(p, fault))
    /\ last.op = "Stat" =>
          StagedAs(last.path, last.rel, [err |-> last.err, info |-> last.info])

\* C3 witness: Stat of /a has returned the entry the default backend holds
\* at /a while /a/b is a mount.
C3_Witness ==
    /\ last.op = "Stat" /\ last.rel = "nil" /\ last.path = "/a"
    /\ "/a/b" \in Prefixes /\ "/a" \notin Prefixes
    /\ last.err = "nil" /\ last.info.type = "backend"

\* the names of a list of entries
NamesOf(infos) == [i \in 1..Len(infos) |-> infos[i].name]

\* what a full Readdir(-1) of a handle returns, read from its start
FullListing(h) == Readdir([h EXCEPT !.offset = 0], -1).infos

\* the names the backend directory of a VMFS directory holds
BackendNames(dir) ==
    IF IsDirIn(backend[GetMount(dir).fs], BPath(GetMount(dir).rel))
    THEN BReaddir(backend[GetMount(dir).fs], GetMount(dir).rel)
    ELSE {}

\* the first segments below dir of the mount prefixes strictly under it
MountSegments(dir) ==
    {NextSegment(q, dir) : q \in {x \in Prefixes : StrictlyUnder(x, dir)}}

\* those of them that are mounts directly in dir
DirectMounts(dir) ==
    {NextSegment(q, dir) :
        q \in {x \in Prefixes : StrictlyUnder(x, dir)
                                /\ Len(Split(x)) = Len(PathSegs(dir)) + 1}}

\* the kind of entry the listing of dir reports a name by
ReportedAs(dir, name) ==
    IF name \in DirectMounts(dir) THEN "mount"
    ELSE IF name \in BackendNames(dir) THEN "backend"
    ELSE "virtual"

\* infos is the merged listing of directory dir
ListingOfDir(infos, dir) ==
    /\ {infos[i].name : i \in 1..Len(infos)} = BackendNames(dir) \cup MountSegments(dir)
    /\ \A i, j \in 1..Len(infos) : i < j => StrLess(infos[i].name, infos[j].name)
    /\ \A i \in 1..Len(infos) : infos[i].type = ReportedAs(dir, infos[i].name)

\* C9: the names a full Readdir(-1) of an open directory returns are the
\* names of the backend directory and the first segments of the mount
\* prefixes strictly under the directory, each once and in ascending order;
\* a direct mount is reported by its mount-point entry whatever else has
\* the name, and a deeper prefix by a virtual entry when nothing else has.
C9_ListingClosure ==
    /\ handle.kind = "dir" => ListingOfDir(FullListing(handle), handle.path)
    /\ (last.op = "Readdir" /\ last.count = -1
        /\ Len(last.names) = Len(handle.entries)) =>
          /\ last.names = NamesOf(FullListing(handle))
          /\ {last.names[i] : i \in 1..Len(last.names)}
                = BackendNames(handle.path) \cup MountSegments(handle.path)

\* C9 witness: a full Readdir(-1) of the root has returned a name that is
\* both a direct mount and an entry of the default backend, next to a name
\* only the backend holds.
C9_Witness ==
    /\ handle.kind = "dir" /\ handle.path = "/"
    /\ last.op = "Readdir" /\ last.count = -1
    /\ Len(last.names) = Len(handle.entries)
    /\ \E i \in 1..Len(last.names) :
          last.names[i] \in DirectMounts("/") \cap BackendNames("/")
    /\ \E i \in 1..Len(last.names) :
          last.names[i] \in BackendNames("/") \ MountSegments("/")

\* the resolved backend holds nothing at a path
Absent(p) == Lookup(p, "nil").err = "ENOENT"

\* what Open returned is a directory handle whose full listing holds a name
ListsName(o, name) ==
    /\ o.err = "nil" /\ o.h.kind = "dir"
    /\ \E i \in 1..Len(FullListing(o.h)) : FullListing(o.h)[i].name = name

\* what Stat returned is a directory
IsDirInfo(st) == st.err = "nil" /\ st.info.isDir

\* what Open returned is a directory handle whose full listing holds names
ListsNames(o, names) ==
    /\ o.err = "nil" /\ o.h.kind = "dir"
    /\ names \subseteq {FullListing(o.h)[i].name : i \in 1..Len(FullListing(o.h))}

\* C10: below a mount at a prefix of several segments, every strict
\* ancestor of the prefix that no backend holds stats as a directory and
\* opens, the listing of every such ancestor and of the root holds the next
\* segment of the prefix, and the listing of a mount prefix holds the
\* entries of the root of the mounted backend.
C10_VirtualTransitivity ==
    /\ \A d \in FsPaths : \A q \in Prefixes :
          (StrictlyUnder(q, NormalizePath(d)) /\ (Absent(d) \/ NormalizePath(d) = "/")) =>
             /\ IsDirInfo(Stat(d, "nil"))
             /\ ListsName(Open(d), NextSegment(q, NormalizePath(d)))
    /\ \A p \in FsPaths :
          NormalizePath(p) \in Prefixes =>
             ListsNames(Open(p), BReaddir(backend[GetMount(p).fs], "/"))
    /\ (last.op = "Open" /\ Absent(last.path)
        /\ \E q \in Prefixes : StrictlyUnder(q, NormalizePath(last.path))) =>
          /\ last.err = "nil" /\ handle.kind = "dir"
          /\ \A q \in Prefixes :
                StrictlyUnder(q, NormalizePath(last.path)) =>
                   \E i \in 1..Len(handle.entries) :
                      handle.entries[i].name = NextSegment(q, NormalizePath(last.path))

\* C10 witness: with a mount at /a/b/a only, Open of /a, which no backend
\* holds, has returned a handle that lists b as a virtual directory.
C10_Witness ==
    /\ last.op = "Open" /\ last.path = "/a" /\ last.err = "nil"
    /\ Absent("/a") /\ Prefixes = {"/a/b/a"}
    /\ Stat("/a/b", "nil").err = "nil" /\ Stat("/a/b", "nil").info.type = "virtual"
    /\ handle.kind = "dir" /\ Len(handle.entries) = 1
    /\ handle.entries[1].name = "b" /\ handle.entries[1].type = "virtual"

----------------------------------------------------------------------------
(* Claims about the guards of Remove, RemoveAll and Rename, under          *)
(* SpecWrite.                                                              *)

\* C4: after a Remove, RemoveAll or Rename that returned success, Stat of
\* every mount prefix of the table succeeds and reports a directory.
C4_MountPrefixesStatAsDirs ==
    (last.op \in {"Remove", "RemoveAll", "Rename"} /\ last.err = "nil") =>
       \A q \in Prefixes :
          Stat(q, "nil").err = "nil" /\ Stat(q, "nil").info.isDir

\* C5, one step: Remove and RemoveAll of a path that normalises to a mount
\* prefix are refused with the permission error, and the call made in the
\* step has returned that error and changed neither the table nor a backend.
C5_Step ==
    /\ \A p \in FsPaths :
          NormalizePath(p) \in Prefixes =>
             Remove(p) = Refuse("EPERM") /\ RemoveAll(p) = Refuse("EPERM")
    /\ (last'.op \in {"Remove", "RemoveAll"} /\ NormalizePath(last'.path) \in Prefixes) =>
          last'.err = "EPERM" /\ backend' = backend /\ mounts' = mounts

\* C5: Remove(p) and RemoveAll(p) with normalize(p) a mount prefix fail with
\* the permission error of op "remove" and leave the mount table and every
\* backend as they were.
C5_MountPrefixRemoveDenied == [][C5_Step]_vars

\* C5 witness: Remove or RemoveAll of a mount prefix whose backend holds
\* entries has returned the permission error.
C5_Witness ==
    /\ last.op \in {"Remove", "RemoveAll"} /\ last.err = "EPERM"
    /\ NormalizePath(last.path) \in Prefixes
    /\ Cardinality(DOMAIN backend[GetMount(last.path).fs]) > 1

\* a path that is no mount prefix and has a mount prefix strictly below it
HasMountBelow(p) ==
    /\ NormalizePath(p) \notin Prefixes
    /\ \E q \in Prefixes : StrictlyUnder(q, NormalizePath(p))

\* C6: Remove, RemoveAll and Rename of a path that is no mount prefix and
\* has a mount prefix strictly below it fail with "directory contains a
\* mount point" and change nothing.
C6_ChildMountGuard ==
    \A p \in FsPaths :
       HasMountBelow(p) =>
          /\ Remove(p) = Refuse("EMOUNT")
          /\ RemoveAll(p) = Refuse("EMOUNT")
          /\ \A q \in FsPaths : Rename(p, q, "nil") = Refuse("EMOUNT")

\* C7 as stated, with /a for /mounted and /a/b for /mounted/sub: RemoveAll
\* of /a fails with the child-mount error and Remove of /a with the
\* permission error.
C7_RemoveAllStructural ==
    ("/a" \in Prefixes /\ "/a/b" \in Prefixes) =>
       RemoveAll("/a").err = "EMOUNT" /\ Remove("/a").err = "EPERM"

\* C7 as the code has it, with /a for /mounted and /a/b for /mounted/sub:
\* RemoveAll of /a and Remove of /a both fail with the permission error and
\* change nothing, the guard of the direct mount being the first.
C7_BothPermissionDenied ==
    ("/a" \in Prefixes /\ "/a/b" \in Prefixes) =>
       /\ RemoveAll("/a") = Refuse("EPERM")
       /\ Remove("/a") = Refuse("EPERM")
       /\ (last.op \in {"Remove", "RemoveAll"} /\ last.path = "/a") => last.err = "EPERM"

\* C7 witness: RemoveAll of /a has returned the permission error with
\* mounts at /a and /a/b.
C7_Witness ==
    /\ "/a" \in Prefixes /\ "/a/b" \in Prefixes
    /\ last.op = "RemoveAll" /\ last.path = "/a" /\ last.err = "EPERM"

----------------------------------------------------------------------------
(* Claims about the directory handle, under SpecHandle and SpecStale.      *)

\* a path is a pure virtual directory: no mount prefix, nothing in the
\* resolved backend, and a strict ancestor of a mount prefix
PureVirtual(p) ==
    /\ NormalizePath(p) \notin Prefixes
    /\ Absent(p)
    /\ \E q \in Prefixes : StrictlyUnder(q, NormalizePath(p))

\* the handle held lists the next segment of every prefix strictly under p
ListsMountsUnder(p) ==
    \A q \in Prefixes :
        StrictlyUnder(q, NormalizePath(p)) =>
            \E i \in 1..Len(handle.entries) :
                handle.entries[i].name = NextSegment(q, NormalizePath(p))

\* C11: OpenFile of a pure virtual directory (a strict ancestor of a mount
\* prefix that no backend holds) returns, as Open does, a directory handle
\* whose listing holds the mount-derived entries; it does not fail with
\* not-found.
C11_OpenFileVirtualDir ==
    (last.op = "OpenFile" /\ PureVirtual(last.path)) =>
        /\ last.err = "nil"
        /\ handle.kind = "dir"
        /\ ListsMountsUnder(last.path)

\* the end of a read of count entries from offset start of n entries
ReadEnd(start, count, n) ==
    IF count > 0 /\ start + count < n THEN start + count ELSE n

\* the step is a Readdir or Readdirnames on a directory handle
ReadStep ==
    /\ handle.kind = "dir"
    /\ last'.op \in {"Readdir", "Readdirnames"}

\* the step returns the names of the entries from the read offset up to end
\* and moves the read offset there
ReadsUpTo(end) ==
    /\ last'.names = NamesOf(SubSeq(handle.entries, handle.offset + 1, end))
    /\ handle'.offset = end
    /\ handle'.entries = handle.entries

\* a read with a positive count: the next slice of at most count entries,
\* and end-of-stream with no entries once the offset is at the end
C12_Step ==
    (ReadStep /\ last'.count > 0) =>
        /\ \A i, j \in 1..Len(handle.entries) :
              i < j => StrLess(handle.entries[i].name, handle.entries[j].name)
        /\ IF handle.offset >= Len(handle.entries)
           THEN /\ last'.err = "EOF"
                /\ last'.names = <<>>
                /\ handle' = handle
           ELSE /\ last'.err = "nil"
                /\ Len(last'.names) >= 1
                /\ Len(last'.names) <= last'.count
                /\ ReadsUpTo(ReadEnd(handle.offset, last'.count,
                                     Len(handle.entries)))

\* C12: on a merged directory handle, Readdir(k) and Readdirnames(k) with
\* k > 0 return the next slice of at most k entries in ascending order of
\* name, starting where the read before ended, so that the slices are
\* consecutive and do not overlap; once the offset is at the end every
\* further call returns no entries and end-of-stream and leaves the handle
\* as it is.
C12_PagedListing == [][C12_Step]_vars

\* C12 witness: a Readdir(2) has returned the last one of three entries,
\* after a read that returned the two before it.
C12_Witness ==
    /\ handle.kind = "dir" /\ Len(handle.entries) = 3
    /\ last.op = "Readdir" /\ last.count = 2 /\ last.err = "nil"
    /\ last.names = <<handle.entries[3].name>>
    /\ handle.offset = 3

\* a read with a count of zero or less: everything from the read offset to
\* the end, and no error
C13_Step ==
    (ReadStep /\ last'.count <= 0) =>
        /\ last'.err = "nil"
        /\ ReadsUpTo(Len(handle.entries))
        /\ handle.offset >= Len(handle.entries) => last'.names = <<>>

\* C13: Readdir(count) and Readdirnames(count) with count <= 0 return all
\* the entries from the read offset to the end and move the offset to the
\* end; when none remain they return an empty list and a nil error, never
\* end-of-stream.
C13_ReadAllRemaining == [][C13_Step]_vars

\* C13 witness: a Readdirnames(0) on a handle of three entries that were
\* all read before has returned an empty list and no error.
C13_Witness ==
    /\ handle.kind = "dir" /\ Len(handle.entries) = 3 /\ handle.offset = 3
    /\ last.op = "Readdirnames" /\ last.count = 0
    /\ last.names = <<>> /\ last.err = "nil"

\* a Seek step: Seek(0, SeekStart) puts the read offset at 0, every other
\* Seek leaves it; each is forwarded to the backend handle.  A full read
\* from offset 0 returns the whole listing.
C14_Step ==
    /\ (handle.kind = "dir" /\ last'.op = "Seek") =>
          /\ handle'.offset = IF last'.count = 0 /\ last'.rel = "SeekStart"
                              THEN 0 ELSE handle.offset
          /\ handle'.fpos = IF last'.rel = "SeekStart" THEN last'.count
                            ELSE handle.fpos + last'.count
          /\ handle'.entries = handle.entries
    /\ (ReadStep /\ last'.count <= 0 /\ handle.offset = 0) =>
          last'.names = NamesOf(handle.entries)

\* C14: Seek(0, SeekStart) on a merged directory handle resets the read
\* offset to 0 from any offset and is forwarded to the backend handle, so
\* the full Readdir or Readdirnames that follows returns the complete
\* listing again; any other Seek leaves the read offset as it is and is
\* forwarded only.
C14_SeekStartResets == [][C14_Step]_vars

\* C14 witness: Seek(0, SeekStart) has put the read offset of a handle of
\* three entries and the position of its backend handle at 0.
C14_Witness ==
    /\ handle.kind = "dir" /\ Len(handle.entries) = 3
    /\ last.op = "Seek" /\ last.count = 0 /\ last.rel = "SeekStart"
    /\ handle.offset = 0 /\ handle.fpos = 0

\* a step taken while a directory handle is held: only Open replaces the
\* entries of the handle, and a Readdir returns entries of the list made at
\* open time
C15_Step ==
    /\ (handle.kind = "dir" /\ last'.op # "Open") =>
          /\ handle'.entries = handle.entries
          /\ handle'.path = handle.path
    /\ (handle.kind = "dir" /\ last'.op = "Readdir") =>
          last'.names =
              NamesOf(SubSeq(handle.entries, handle.offset + 1,
                             ReadEnd(handle.offset, last'.count,
                                     Len(handle.entries))))

\* C15: the entry list of a directory handle is made once, when the handle
\* is opened: a Mount, an Unmount or a change of a backend after that,
\* before the first Readdir or between two of them, changes nothing of what
\* the handle returns.
C15_EntriesFixedAtOpen == [][C15_Step]_vars

\* the names a handle opened now on the same directory would list
ListedNow(path) == NamesOf(Open(path).h.entries)

\* C15 witness: a full Readdir has returned the names collected at open
\* time from a handle whose directory would be listed differently now.
C15_Witness ==
    /\ handle.kind = "dir"
    /\ last.op = "Readdir" /\ last.count <= 0
    /\ last.names = NamesOf(handle.entries)
    /\ last.names # <<>>
    /\ ListedNow(handle.path) # NamesOf(handle.entries)

----------------------------------------------------------------------------
(* Claims about Rename between two backends, under SpecRename.             *)

\* the step is a Rename of an entry of kind kind that old resolves to, to a
\* name that resolves to another backend
CrossRenameOf(old, new, kind) ==
    /\ last'.op = "Rename"
    /\ ~hasChildMount(last'.path)
    /\ old.fs # new.fs
    /\ BPath(old.rel) \in DOMAIN backend[old.fs]
    /\ backend[old.fs][BPath(old.rel)].kind = kind

\* after the step the destination holds the bytes and the mode the source
\* had before it, and the source backend holds the source no more
FileMoved(srcFs, src, dstFs, dst) ==
    /\ dst \in DOMAIN backend'[dstFs]
    /\ backend'[dstFs][dst].kind = "file"
    /\ backend'[dstFs][dst].data = backend[srcFs][src].data
    /\ backend'[dstFs][dst].mode = backend[srcFs][src].mode
    /\ src \notin DOMAIN backend'[srcFs]

C16_Step ==
    \A old \in {GetMount(last'.path)}, new \in {GetMount(last'.path2)} :
        (CrossRenameOf(old, new, "file") /\ last'.err = "nil") =>
            FileMoved(old.fs, BPath(old.rel), new.fs, BPath(new.rel))

\* C16: when a Rename of a regular file whose old and new names resolve to
\* different backends succeeds, the destination backend holds at the
\* destination path a file with the bytes and the mode the source had
\* before the call, and the source backend holds the source no more.
C16_CrossRenameFile == [][C16_Step]_vars

\* C16 witness: the file /a of the default backend, with bytes and a mode
\* of its own, has been renamed into a backend mounted at /b.
C16_Witness ==
    /\ last.op = "Rename" /\ last.err = "nil"
    /\ last.path = "/a" /\ last.path2 = "/b/a"
    /\ GetMount("/b/a").fs # DefaultFs
    /\ "/a" \notin DOMAIN backend[DefaultFs]
    /\ "/a" \in DOMAIN backend[GetMount("/b/a").fs]
    /\ backend[GetMount("/b/a").fs]["/a"] = OldFile

\* the path below dst that the entry r at or below src moves to
DestOf(r, src, dst) ==
    IF r = src THEN dst ELSE Clean(dst \o "/" \o SubSeq(r, Len(src) + 1, Len(r)))

\* after the step every entry of the source tree is below the destination
\* with its kind and its bytes, and the source backend holds nothing of the
\* source tree
TreeMoved(srcFs, src, dstFs, dst) ==
    /\ \A r \in DOMAIN backend[srcFs] :
          (r = src \/ Below(r, src)) =>
              /\ DestOf(r, src, dst) \in DOMAIN backend'[dstFs]
              /\ backend'[dstFs][DestOf(r, src, dst)].kind = backend[srcFs][r].kind
              /\ backend'[dstFs][DestOf(r, src, dst)].data = backend[srcFs][r].data
    /\ \A r \in DOMAIN backend'[srcFs] : r # src /\ ~Below(r, src)

C17_Step ==
    \A old \in {GetMount(last'.path)}, new \in {GetMount(last'.path2)} :
        CrossRenameOf(old, new, "dir") =>
            IF last'.err = "nil"
            THEN TreeMoved(old.fs, BPath(old.rel), new.fs, BPath(new.rel))
            ELSE BPath(old.rel) \in DOMAIN backend'[old.fs]

\* C17: when a Rename of a directory whose old and new names resolve to
\* different backends succeeds, every file and subdirectory of the source
\* tree is below the destination at the corresponding path, the files with
\* their contents, and the source directory is no more; the source
\* directory is removed last, so a Rename that fails leaves it in place.
C17_CrossRenameDir == [][C17_Step]_vars

\* C17 witness: the directory /a of the default backend, which holds a file
\* and a subdirectory with a file, has been renamed into a backend mounted
\* at /b.
C17_Witness ==
    /\ last.op = "Rename" /\ last.err = "nil"
    /\ last.path = "/a" /\ last.path2 = "/b/a"
    /\ GetMount("/b/a").fs # DefaultFs
    /\ "/a" \notin DOMAIN backend[DefaultFs]
    /\ {"/a", "/a/a", "/a/b", "/a/b/a"} \subseteq DOMAIN backend[GetMount("/b/a").fs]
    /\ backend[GetMount("/b/a").fs]["/a/b/a"].data = OldFile.data

\* after the step the destination is no more and nothing else has changed
RolledBackTo(dstFs, dst) ==
    /\ dst \notin DOMAIN backend'[dstFs]
    /\ backend'[dstFs] = Without(backend[dstFs], {dst})
    /\ \A fs \in BackendIds \ {dstFs} : backend'[fs] = backend[fs]

C18_Step ==
    \A old \in {GetMount(last'.path)}, new \in {GetMount(last'.path2)} :
        ( /\ CrossRenameOf(old, new, "file")
          /\ last'.rel # "nil"
          /\ BCreate(backend[new.fs], new.rel).err = "nil" ) =>
            /\ last'.err = last'.rel
            /\ RolledBackTo(new.fs, BPath(new.rel))

\* C18: in a Rename of a regular file between two backends, when a step
\* after the creation of the destination file fails (the copy of the bytes,
\* the Stat of the source or the Chmod of the destination), the destination
\* file is removed before the error is returned, the source file stays as
\* it was, and the caller receives the error of that step.
C18_PartialDestinationRollback == [][C18_Step]_vars

\* C18 witness: the Rename of the file /a into a backend mounted at /b has
\* failed at the Chmod; the source is as it was and the destination holds
\* no /a.
C18_Witness ==
    /\ last.op = "Rename" /\ last.rel = "ECHMOD" /\ last.err = "ECHMOD"
    /\ last.path = "/a" /\ last.path2 = "/b/a"
    /\ GetMount("/b/a").fs # DefaultFs
    /\ "/a" \in DOMAIN backend[DefaultFs]
    /\ backend[DefaultFs]["/a"] = OldFile
    /\ "/a" \notin DOMAIN backend[GetMount("/b/a").fs]

----------------------------------------------------------------------------
(* Claims about the errors of Mount, under SpecMount.                      *)

\* C19: Mount fails with the invalid-argument error and leaves the table as
\* it is for every prefix whose normalised form is "/" ("", "/", "//", ".",
\* "/.", "/a/.."); the table never holds a prefix that stands for the root.
C19_MountRootRefused ==
    /\ (last.op = "Mount" /\ NormalizePath(last.path) = "/") => last.err = "EINVAL"
    /\ \A q \in Prefixes : NormalizePath(q) # "/"

\* a Mount of a prefix whose normalised form the table holds already fails
\* and changes nothing
C20_Step ==
    (last'.op = "Mount" /\ NormalizePath(last'.path) # "/"
     /\ \E q \in Prefixes : NormalizePath(q) = NormalizePath(last'.path)) =>
        /\ last'.err = "EEXIST"
        /\ mounts' = mounts

\* C20: Mount fails with the already-exists error when the table holds a
\* mount whose prefix has the same normalised form as the argument, and the
\* table, with the backend bound to that prefix, stays as it was.
C20_MountDuplicateRefused == [][C20_Step]_vars

----------------------------------------------------------------------------
(* Claims about the form of the mount table, under SpecMount.              *)

\* C21: after any sequence of Mount and Unmount calls with prefixes of any
\* form, every prefix the table holds is a canonical absolute path (equal to
\* its own normalisation), is not "/", and no two mounts have one prefix.
C21_TableWellFormed ==
    /\ \A i \in 1..Len(mounts) :
          /\ NormalizePath(mounts[i].Prefix) = mounts[i].Prefix
          /\ mounts[i].Prefix # "/"
    /\ \A i, j \in 1..Len(mounts) : i # j => mounts[i].Prefix # mounts[j].Prefix

\* the table without the mount of prefix q, the others in their order
TableWithout(q) ==
    LET S == {i \in 1..Len(mounts) : mounts[i].Prefix = q}
    IN  IF S = {} THEN mounts
        ELSE SubSeq(mounts, 1, First(S) - 1)
                 \o SubSeq(mounts, First(S) + 1, Len(mounts))

\* an Unmount step removes the mount at the normalised argument, and that
\* mount only, and answers whether there was one; after it every path
\* resolves to the longest prefix that is left
C22_Step ==
    last'.op = "Unmount" =>
        /\ mounts' = TableWithout(NormalizePath(last'.path))
        /\ last'.err = IF NormalizePath(last'.path) \in Prefixes
                       THEN "nil" ELSE "ENOENT"
        /\ \A p \in TableQueries :
              ResolvesLongest(p, GetMount(p).fs, GetMount(p).rel)'

\* C22: Unmount(prefix) removes exactly the mount whose prefix equals the
\* normalised argument and returns true, or returns false and changes
\* nothing when there is none; the other mounts keep their order, and the
\* paths below the removed prefix resolve to the next-longest mount or to
\* the default backend.
C22_UnmountExact == [][C22_Step]_vars

----------------------------------------------------------------------------
(* Claims about path spellings.                                            *)

\* spellings of paths, several of them for one normalised form
Spellings == {"/a", "a/", "/b/../a", "/a/b", "/a//b", "a/b/", "/b", "b"}

\* the operations that take a path and leave the mount table alone give one
\* answer and one effect for p1 and p2
SameAnswers(p1, p2) ==
    /\ GetMount(p1) = GetMount(p2)
    /\ Stat(p1, "nil") = Stat(p2, "nil")
    /\ Open(p1) = Open(p2)
    /\ OpenFile(p1) = OpenFile(p2)
    /\ Create(p1) = Create(p2)
    /\ Mkdir(p1) = Mkdir(p2)
    /\ MkdirAll(p1) = MkdirAll(p2)
    /\ Remove(p1) = Remove(p2)
    /\ RemoveAll(p1) = RemoveAll(p2)
    /\ \A q \in Spellings :
          /\ Rename(p1, q, "nil") = Rename(p2, q, "nil")
          /\ Rename(q, p1, "nil") = Rename(q, p2, "nil")

\* Mount and Unmount give one answer and one table for p1 and p2
SameTable(p1, p2) ==
    /\ Unmount(p1) = Unmount(p2)
    /\ \A fs \in FsMounted : Mount(p1, fs) = Mount(p2, fs)

\* C23: for any two paths p1 and p2 of one normalised form, every operation
\* (Mount, Unmount, GetMount, Stat, Open, OpenFile, Create, Mkdir, MkdirAll,
\* Remove, RemoveAll, Rename) called with p1 has the result and the effect it
\* has when called with p2.
C23_SpellingsEquivalent ==
    \A p1, p2 \in Spellings :
        NormalizePath(p1) = NormalizePath(p2) =>
            SameAnswers(p1, p2) /\ SameTable(p1, p2)

\* a canonical path: it starts with "/", and it is "/" or has no segment
\* that is empty, "." or ".." (so no doubled and no trailing slash)
Canonical(r) ==
    /\ HasPrefix(r, "/")
    /\ r = "/" \/ \A i \in 2..Len(Split(r)) : Split(r)[i] \notin {"", ".", ".."}

\* C24: for every input string, absolute or relative, NormalizePath returns a
\* canonical path (leading "/", no ".", ".." or empty segment, no trailing
\* slash but the root's), "" and "." give "/", and NormalizePath of the
\* result is the result.
C24_NormalizeCanonical ==
    last.op = "NormalizePath" =>
        /\ Canonical(last.rel)
        /\ last.path \in {"", "."} => last.rel = "/"
        /\ NormalizePath(last.rel) = last.rel

----------------------------------------------------------------------------
(* Claims about creating directories.                                      *)

\* the strings a string ends with
Suffixes(s) == {SubSeq(s, i, Len(s)) : i \in 1..Len(s) + 1}

\* what the backend fs answers to the call op with the relative path rel,
\* and the backends after it
Forwarded(op, fs, rel) ==
    LET r == IF op = "Mkdir" THEN BMkdir(backend[fs], rel)
             ELSE BMkdirAll(backend[fs], rel)
    IN  [err |-> r.err, b |-> [backend EXCEPT ![fs] = r.t]]

C25_Step ==
    last'.op \in {"Mkdir", "MkdirAll"} =>
        /\ mounts' = mounts
        /\ IF NormalizePath(last'.path) \in Prefixes
           THEN last'.err = "EEXIST" /\ backend' = backend
           ELSE \E fs \in BackendIds, rel \in Suffixes(NormalizePath(last'.path)) :
                   /\ ResolvesLongest(last'.path, fs, rel)
                   /\ last'.err = Forwarded(last'.op, fs, rel).err
                   /\ backend' = Forwarded(last'.op, fs, rel).b

\* C25: Mkdir(p) and MkdirAll(p) with normalize(p) a mount prefix fail with
\* the already-exists error and change no backend and no mount; with any
\* other path they are the Mkdir or MkdirAll of the backend the path resolves
\* to, called with the relative path: its answer is returned and only that
\* backend changes.
C25_MkdirMountPrefixExists == [][C25_Step]_vars

\* C25 witness: MkdirAll of a mount prefix was refused with already-exists,
\* and the backend mounted there holds only its root.
C25_Witness ==
    /\ last.op = "MkdirAll" /\ last.err = "EEXIST"
    /\ NormalizePath(last.path) \in Prefixes
    /\ DOMAIN backend[FsAt(NormalizePath(last.path))] = {"/"}

----------------------------------------------------------------------------
(* Claims about the lock of the mount table.                               *)

\* the steps that read m.mounts and those that write it
TableReads == {"direct", "child", "resolve", "under", "list", "virtual", "Check", "Find"}
TableWrites == {"Append", "Sort", "Shift", "Cut"}

\* the goroutine t holds the lock, shared or exclusive
Holds(t) == t \in mu.r \/ mu.w = t

\* C26: a goroutine that is about to read the mount table (resolution,
\* mounts-under, is-direct-mount, has-child-mount, list) holds the shared or
\* the exclusive lock, one that is about to write it (Mount, Unmount) holds
\* the exclusive lock, and no lookup has read the table between two writes
\* of one update.
C26_LockDiscipline ==
    \A t \in Procs :
        /\ Instr(run[t]) \in TableReads => Holds(t)
        /\ Instr(run[t]) \in TableWrites => mu.w = t
        /\ ~run[t].torn

\* C27: a goroutine that is about to call a backend holds the lock of the
\* mount table neither shared nor exclusive, so the backend call keeps no
\* Mount and no Unmount from taking the lock.
C27_NoLockAcrossBackend ==
    \A t \in Procs : Instr(run[t]) = "Backend" => ~Holds(t)

\* C27 witness: one goroutine is in its backend call while another holds
\* the exclusive lock in Mount or Unmount.
C27_Witness ==
    \E t, u \in Procs :
        /\ Instr(run[t]) = "Backend"
        /\ mu.w = u /\ u # t
        /\ run[u].op \in {"Mount", "Unmount"}

----------------------------------------------------------------------------
(* Claims about the filesystems of the users.                              *)

\* the permission in force for user u on pool P: the entry of the user if
\* the pool has one, the default of the pool otherwise
Effective(u, P) ==
    LET pool == ctx.Config.Pools[P]
    IN  IF u \in DOMAIN pool.Permissions THEN pool.Permissions[u]
        ELSE pool.DefaultPerm

\* the letters of a permission
Letters(perm) == {CharAt(perm, i) : i \in 1..Len(perm)}

CanRead(u, P) == "r" \in Letters(Effective(u, P))
CanWrite(u, P) == {"r", "w"} \subseteq Letters(Effective(u, P))

\* the mounts of the filesystem of user u
MountsOf(u) == {ctx.users[u].mounts[i] : i \in 1..Len(ctx.users[u].mounts)}

\* the paths a pool is looked for under
ReachPaths == UserPaths \cup {"/", "/b", "/c", "a", "a/a", "/b/../a", "/a/b/a"}

\* C28: in the filesystem NewContext builds for a user u there is a mount at
\* /P, bound to the directory of pool P, exactly when the permission in
\* force (the entry of u, else the default of the pool) has the letter r;
\* the mount is held through a read-only wrapper exactly when the permission
\* does not have both r and w; and in the filesystem a caller has loaded no
\* path resolves to a pool its user cannot read, nor does the root list it.
C28_UserFsComposition ==
    /\ \A u \in DOMAIN ctx.users, P \in DOMAIN ctx.Config.Pools :
          /\ ("/" \o P \in {m.Prefix : m \in MountsOf(u)}) <=> CanRead(u, P)
          /\ \A m \in MountsOf(u) :
                m.Prefix = "/" \o P =>
                    /\ m.Fs = ctx.Config.Pools[P].Path
                    /\ (m.Fs \in ctx.users[u].readonly) <=> ~CanWrite(u, P)
    /\ \A u \in DOMAIN ctx.users : \A m \in MountsOf(u) :
          \E P \in DOMAIN ctx.Config.Pools : m.Prefix = "/" \o P
    /\ auth # NoAuth =>
          \A P \in DOMAIN ctx.Config.Pools :
              ~CanRead(auth, P) =>
                  /\ \A p \in ReachPaths : GetMount(p).fs # ctx.Config.Pools[P].Path
                  /\ Stat("/" \o P, "nil").err = "ENOENT"
                  /\ ~ListsName(Open("/"), P)

\* C28 witness: u1 has loaded its filesystem; its entry "w" on pool a
\* overrides the default "rw", so /a is not mounted for u1 while guest has
\* it, and pool b, readable by default only, is mounted read-only.
C28_Witness ==
    /\ auth = "u1"
    /\ "u1" \in DOMAIN ctx.Config.Pools["a"].Permissions
    /\ ctx.Config.Pools["a"].Permissions["u1"] = "w"
    /\ ctx.Config.Pools["a"].DefaultPerm = "rw"
    /\ "/a" \notin Prefixes
    /\ "/a" \in {m.Prefix : m \in MountsOf("guest")}
    /\ "/b" \in Prefixes /\ "B" \in readonly

\* the backends the caller cannot write: its welcome backend and the pools
\* its user has no write permission on
Unwritable(fs) ==
    \/ fs = DefaultFs
    \/ \E P \in DOMAIN ctx.Config.Pools :
          ctx.Config.Pools[P].Path = fs /\ ~CanWrite(auth, P)

\* the backend a path resolves to (longest mounted prefix) is unwritable
InUnwritable(p) ==
    \E fs \in BackendIds, rel \in Suffixes(NormalizePath(p)) :
        ResolvesLongest(p, fs, rel) /\ Unwritable(fs)

\* the entry a path names exists in the backend it resolves to
Exists(p) ==
    \E fs \in BackendIds, rel \in Suffixes(NormalizePath(p)) :
        ResolvesLongest(p, fs, rel) /\ BStat(backend[fs], rel).err = "nil"

C29_Step ==
    auth # NoAuth =>
        /\ \A fs \in BackendIds : Unwritable(fs) => backend'[fs] = backend[fs]
        /\ (/\ last'.op \in {"Create", "Mkdir", "MkdirAll", "Remove", "RemoveAll", "Chmod"}
            /\ InUnwritable(last'.path)
            /\ last'.op \in {"Mkdir", "MkdirAll"} => NormalizePath(last'.path) \notin Prefixes
            /\ last'.op \in {"Remove", "RemoveAll"} => ~hasChildMount(last'.path))
           => last'.err = "EPERM"
        /\ (/\ last'.op = "Rename"
            /\ ~hasChildMount(last'.path)
            /\ Exists(last'.path))
           => /\ InUnwritable(last'.path2) => last'.err = "EPERM"
              /\ InUnwritable(last'.path) =>
                    last'.err # "nil" /\ (backend' # backend => last'.err = "EPERM")

PasswordOf(stored, plain) ==
    stored \in {plain, "sha256:" \o Sha256Hex(plain),
                "argon2id:" \o Argon2Encoded(plain)}

\* a presented key is one of the stored lines without its comment
KeyOf(lines, key) ==
    \E i \in 1..Len(lines) :
        lines[i] = key \/ HasPrefix(lines[i], key \o " ")

\* every credential presented to LoadFS is the stored one of user u
Verifies(u, password, key) ==
    /\ password # "" => PasswordOf(ctx.Config.Users[u].Password, password)
    /\ key # NoKey => KeyOf(ctx.Config.Users[u].PublicKeys, key)

\* C30: LoadFS for a name other than guest returns the filesystem of that
\* user only if the user is in the user table, a non-empty password or a
\* key is presented and every credential presented is the stored one; with
\* an empty password and no key it returns the no-permission error whoever
\* the user is; and when a credential presented is not the stored one it
\* returns the not-authorized error and no filesystem.
C30_LoadFSVerifies ==
    (last.op = "LoadFS" /\ last.path # "guest") =>
        /\ last.err = "nil" =>
              /\ last.path \in DOMAIN ctx.Config.Users
              /\ last.path2 # "" \/ last.rel # NoKey
              /\ Verifies(last.path, last.path2, last.rel)
              /\ auth = last.path
              /\ mounts = ctx.users[last.path].mounts
        /\ (last.path2 = "" /\ last.rel = NoKey) => last.err = "ENOPERM"
        /\ (/\ last.path2 # "" \/ last.rel # NoKey
            /\ last.path \in DOMAIN ctx.Config.Users
            /\ ~Verifies(last.path, last.path2, last.rel))
           => last.err = "ENOAUTH"
        /\ last.err # "nil" => auth = NoAuth /\ mounts = <<>>

\* C30 witness: u1 presented its password and one of its keys, either
\* stored in a form other than the one presented (a hash, a line with a
\* comment), and LoadFS returned the filesystem of u1.
C30_Witness ==
    /\ last.op = "LoadFS" /\ last.path = "u1" /\ last.err = "nil"
    /\ last.path2 = "pw" /\ ctx.Config.Users["u1"].Password # "pw"
    /\ last.rel = "ssh-ed25519 K1"
    /\ ctx.Config.Users["u1"].PublicKeys[1] # "ssh-ed25519 K1"
    /\ auth = "u1" /\ "/a" \in Prefixes

\* C31: whenever a context exists, guest is in its configuration with no
\* credentials and in its table of user filesystems, composed as for any
\* user; and LoadFS for the name guest returns the filesystem of guest when
\* guestAccept is true, whatever password or key is presented, and the
\* no-permission error and no filesystem when guestAccept is false.
C31_GuestGated ==
    /\ DOMAIN ctx.users # {} =>
          /\ "guest" \in DOMAIN ctx.Config.Users
          /\ ctx.Config.Users["guest"] = GuestUser
          /\ "guest" \in DOMAIN ctx.users
          /\ ctx.users["guest"] = UserFs(ctx.Config, "guest")
    /\ (last.op = "LoadFS" /\ last.path = "guest") =>
          /\ last.count = 1 =>
                /\ last.err = "nil" /\ auth = "guest"
                /\ mounts = ctx.users["guest"].mounts
                /\ readonly = ctx.users["guest"].readonly
                /\ backend[DefaultFs] = ctx.users["guest"].base
          /\ last.count = 0 =>
                /\ last.err = "ENOPERM" /\ auth = NoAuth /\ mounts = <<>>

\* C31 witness: the file declared no user, and a caller that presented a
\* password and a key under the name guest, with guestAccept true, holds
\* the filesystem of guest with pool a mounted.
C31_Witness ==
    /\ last.op = "LoadFS" /\ last.path = "guest" /\ last.err = "nil"
    /\ last.path2 = "pw" /\ last.rel # NoKey /\ last.count = 1
    /\ DOMAIN ctx.Config.Users = {"guest"}
    /\ auth = "guest" /\ "/a" \in Prefixes

\* the entry of the listing held that the last Info was asked of, and the
\* path it stands for
Asked == handle.entries[last.count]
AskedPath == PathJoin(handle.path, Asked.name)

\* the mount of the entry asked is mounted as it was when the listing was
\* collected
StillMounted == directDir(AskedPath).ok /\ directDir(AskedPath).mount = Asked.mount

\* C32: the entry of a mount point in a listing is a directory; its mode
\* and its modification time are those of "/" on the mounted backend when
\* that root can be stat-ed, which are the values Stat of the mount prefix
\* reports while the mount is there, and drwxr-xr-x and the zero time when
\* it cannot.
C32_MountEntryReflectsRoot ==
    (last.op = "Info" /\ last.info.type = "mount") =>
        /\ last.info.isDir
        /\ BStat(backend[Asked.mount.Fs], "/").err = "nil" =>
              /\ last.info.mode = BStat(backend[Asked.mount.Fs], "/").info.mode
              /\ last.info.mtime = BStat(backend[Asked.mount.Fs], "/").info.mtime
        /\ BStat(backend[Asked.mount.Fs], "/").err # "nil" =>
              /\ last.info.mode = DirMode
              /\ last.info.mtime = ZeroTime
        /\ StillMounted =>
              /\ last.info.mode = Stat(AskedPath, "nil").info.mode
              /\ last.info.mtime = Stat(AskedPath, "nil").info.mtime

\* a flag contains the bit b
HasBit(flag, b) == (flag \div b) % 2 = 1

\* an open for writing: the flags contain one of the five
WriteMode(flag) ==
    \E b \in {O_WRONLY, O_RDWR, O_CREATE, O_APPEND, O_TRUNC} : HasBit(flag, b)

\* the goroutine t is inside a call of the wrapped filesystem
Inside(t) == Instr(run[t]) = "Leave"

\* the call changes the filesystem or is an open for writing
Mutates(th) ==
    \/ th.op \in {"lfs.Create", "lfs.Mkdir", "lfs.Remove", "lfs.RemoveAll",
                  "lfs.Rename", "lfs.Chmod", "lfs.Chown", "lfs.Chtimes"}
    \/ th.op = "lfs.OpenFile" /\ WriteMode(th.flag)

\* C33: LockedFs.OpenFile holds the shared lock of the filesystem when its
\* flags contain none of O_WRONLY, O_RDWR, O_CREATE, O_APPEND and O_TRUNC
\* and the exclusive lock otherwise; and while an open for writing or a
\* method that changes the filesystem is inside the wrapped filesystem, no
\* other call of the LockedFs is inside it.
C33_LockedFsExclusion ==
    /\ \A t \in Procs :
          (run[t].op = "lfs.OpenFile" /\ Instr(run[t]) \in {"Enter", "Leave"}) =>
              IF WriteMode(run[t].flag) THEN mu.w = t /\ mu.r = {}
              ELSE t \in mu.r /\ mu.w = 0
    /\ \A t \in Procs, u \in Procs :
          (t # u /\ Inside(t) /\ Mutates(run[t])) => ~Inside(u)

\* C33 witness: an OpenFile with O_APPEND alone is inside the wrapped
\* filesystem under the exclusive lock while a Stat of the other goroutine
\* waits for the shared lock.
C33_Witness ==
    /\ run[1].op = "lfs.OpenFile" /\ run[1].flag = O_APPEND /\ Inside(1)
    /\ mu.w = 1
    /\ run[2].op = "lfs.Stat" /\ Instr(run[2]) = "RLock"

\* C34: a token the context signed for a user, presented as it was signed
\* and no more than the lifetime after, is verified without error and gives
\* that user; a token that has not exactly three parts between dots, or
\* whose user part, time or signature is not as it was signed, is rejected
\* with an error and gives no user.
C34_TokenRoundTrip ==
    last.op = "VerifyToken" =>
        /\ (/\ cookie # NoCookie
            /\ last.path2 = cookie.token
            /\ clock - cookie.ts <= TokenLifetime)
           => last.err = "nil" /\ last.path = cookie.user
        /\ Len(SplitDots(last.path2, "")) # 3 => last.err # "nil"
        /\ last.path2 # cookie.token => last.err # "nil"
        /\ last.err # "nil" => last.path = ""

\* C34 witness: a token signed for the user a.b was verified a week later,
\* on the last second of its life, and gave a.b.
C34_Witness ==
    /\ last.op = "VerifyToken" /\ last.err = "nil" /\ last.path = "a.b"
    /\ cookie.user = "a.b" /\ last.path2 = cookie.token
    /\ clock = cookie.ts + TokenLifetime

\* C35: the list ListMounts returns is ordered by the length of the
\* prefixes, longest first: no entry has a longer prefix than an entry
\* before it.
C35_ListByLength ==
    last.op = "ListMounts" =>
        \A i \in 1..Len(last.names), j \in 1..Len(last.names) :
            i < j => Len(last.names[i]) >= Len(last.names[j])

\* the goroutine t has passed its guards and is about to call the backend
\* it resolved to at the root of that backend
AtMountedRoot(t) ==
    /\ Instr(run[t]) = "Backend"
    /\ run[t].op = "Remove"
    /\ run[t].fs # DefaultFs
    /\ run[t].rel \in {"", "/"}

\* C36: the guards and the resolution of a guarded operation see one mount
\* table: in no interleaving with a Mount or an Unmount does a Remove that
\* has passed its guards go to the root of a mounted backend (relative path
\* "" or "/").
C36_GuardDispatchAtomic == \A t \in Procs : ~AtMountedRoot(t)

----------------------------------------------------------------------------
(* Claims about the steps of a Rename between two backends, under          *)
(* SpecMove.                                                               *)

\* the regular files of the source tree as the Rename found them
SourceFiles ==
    {r \in DOMAIN job.was :
        /\ job.was[r].kind = "file"
        /\ r = BPath(job.src) \/ Below(r, BPath(job.src))}

\* the backend fs holds at q a file with all the bytes the source file r had
Keeps(fs, q, r) ==
    /\ q \in DOMAIN backend[fs]
    /\ backend[fs][q].kind = "file"
    /\ backend[fs][q].data = job.was[r].data

\* C37: at every step of a Rename between two backends, whether it goes on
\* to succeed or to fail, every regular file of the source tree is with all
\* its bytes in the source backend or with all its bytes at the
\* corresponding path of the destination backend, so the source is removed
\* only when its copy is complete.
C37_NoDataLoss ==
    job.on =>
        \A r \in SourceFiles :
            \/ Keeps(job.srcFs, r, r)
            \/ Keeps(job.dstFs, DestOf(r, BPath(job.src), BPath(job.dst)), r)

\* C37 witness: a Rename of a directory is still at work and the source
\* tree is split: one of its files is in the source backend no more and
\* lives at the destination only, another one is still in the source.
C37_Witness ==
    /\ job.on
    /\ Len(job.stack) > 0
    /\ \E r \in SourceFiles :
          /\ r \notin DOMAIN backend[job.srcFs]
          /\ Keeps(job.dstFs, DestOf(r, BPath(job.src), BPath(job.dst)), r)
    /\ \E r \in SourceFiles : Keeps(job.srcFs, r, r)

\* the backends of the mount table
MountedFs == {mounts[i].Fs : i \in 1..Len(mounts)}

C38_Step ==
    ( /\ last'.op = "Rename"
      /\ directDir(last'.path).ok \/ directDir(last'.path2).ok ) =>
        /\ last'.err # "nil"
        /\ \A fs \in MountedFs : backend'[fs] = backend[fs]

\* C38: a Rename whose old or new name is, once normalised, a mount prefix
\* fails, and every mounted backend holds after it what it held before: the
\* root of a mounted backend is never moved, emptied or overwritten.
C38_RenameMountRootRefused == [][C38_Step]_vars

----------------------------------------------------------------------------
(* Claims about Rename out of a read-only backend, under SpecUser.         *)

\* the step is a Rename from the read-only backend old resolves to into
\* another backend, one that can be written, neither name is a mount
\* prefix, and it returns the permission error: the source could not be
\* removed
SourceReadOnly(old, new) ==
    /\ last'.op = "Rename"
    /\ ~hasChildMount(last'.path)
    /\ ~directDir(last'.path).ok
    /\ ~directDir(last'.path2).ok
    /\ old.fs # new.fs
    /\ old.fs \in readonly
    /\ new.fs \notin readonly
    /\ last'.err = "EPERM"

C39_Step ==
    \A old \in {GetMount(last'.path)}, new \in {GetMount(last'.path2)} :
        SourceReadOnly(old, new) => backend'[new.fs] = backend[new.fs]

\* C39: a Rename between two backends that returns an error because the
\* source backend is read-only leaves the destination backend as it was:
\* no copy of the source stays at the destination.
C39_ReadOnlySourceLeavesDestination == [][C39_Step]_vars

----------------------------------------------------------------------------
(* Claims about LstatIfPossible, under SpecLstat.                          *)

\* what Stat answers to the name LstatIfPossible was called with
StatNow == Stat(last.path, "nil")

\* C40: for every name at which Stat succeeds with a directory the MountFs
\* makes up (a mount prefix or a virtual directory above one),
\* LstatIfPossible succeeds too and reports a directory; and when the
\* backend the name resolves to has no lstat of its own, LstatIfPossible
\* returns what Stat returns, with the flag false.
C40_LstatAgreesWithStat ==
    last.op = "LstatIfPossible" =>
        /\ (StatNow.err = "nil" /\ StatNow.info.type \in {"mount", "virtual"}) =>
              last.err = "nil" /\ last.info.isDir
        /\ GetMount(last.path).fs \notin Lstaters =>
              /\ last.count = 0
              /\ last.err = StatNow.err
              /\ last.info = StatNow.info

====
